---- MODULE Spec2Model ----
(***************************************************************************)
(* Switchboard server (src/apps/server.c): client registry, routing table, *)
(* message dispatcher, console route command and startup route loader.     *)
(*                                                                         *)
(* Text is modelled as sequences of one-character strings, so that the     *)
(* frame parser, atoi and the "in%d from client%d: %s" formatting are      *)
(* computed character by character as the C code computes them.            *)
(***************************************************************************)
EXTENDS Integers, Sequences, FiniteSets, TLC

(***************************************************************************)
(* Program constants.  MAX_CLIENTS and CHANNELS_PER_APP are scaled down    *)
(* (20 and 5 in the source); the buffer sizes keep their source values.    *)
(***************************************************************************)
MAX_CLIENTS == 2
CHANNELS_PER_APP == 2
MAX_MSG_LENGTH == 512
BUF_SIZE == 512
OUTBUF_SIZE == 600
SERVER_FD == 3

(***************************************************************************)
(* Bounds of the model.                                                    *)
(***************************************************************************)
\* accept() is modelled while next_client_id <= MaxId
MaxId == 3
\* number of handler invocations explored after startup
MaxSteps == 7
\* number of lines of route.rt
MaxFileLines == 1
\* lines of a startup file in the specification of the loader
MaxLoaderLines == 3

Slots == 0..(MAX_CLIENTS - 1)
Channels == 0..(CHANNELS_PER_APP - 1)
RouteRows == 0..MAX_CLIENTS

(***************************************************************************)
(* libc helpers on character sequences.                                    *)
(***************************************************************************)
Digits == <<"0", "1", "2", "3", "4", "5", "6", "7", "8", "9">>

isdigit(c) == \E k \in 1..10 : Digits[k] = c

DigitVal(c) == (CHOOSE k \in 1..10 : Digits[k] = c) - 1

\* printf("%d")
RECURSIVE DecNat(_)
DecNat(n) == IF n < 10 THEN <<Digits[n + 1]>>
             ELSE DecNat(n \div 10) \o <<Digits[(n % 10) + 1]>>

Dec(n) == IF n < 0 THEN <<"-">> \o DecNat(0 - n) ELSE DecNat(n)

\* the value of the leading run of digits of s, continuing from acc
RECURSIVE AtoiDigits(_, _)
AtoiDigits(s, acc) ==
    IF s # <<>> /\ isdigit(Head(s))
    THEN AtoiDigits(Tail(s), acc * 10 + DigitVal(Head(s)))
    ELSE acc

RECURSIVE SkipBlanks(_)
SkipBlanks(s) == IF s # <<>> /\ Head(s) \in {" ", "\t"} THEN SkipBlanks(Tail(s)) ELSE s

atoi(s) ==
    LET t == SkipBlanks(s) IN
    IF t # <<>> /\ Head(t) = "-" THEN 0 - AtoiDigits(Tail(t), 0)
    ELSE IF t # <<>> /\ Head(t) = "+" THEN AtoiDigits(Tail(t), 0)
    ELSE AtoiDigits(t, 0)

\* strchr: 1-based position of the first c in s, 0 if there is none
strchr(s, c) ==
    IF \E k \in 1..Len(s) : s[k] = c
    THEN CHOOSE k \in 1..Len(s) : s[k] = c /\ \A j \in 1..(k - 1) : s[j] # c
    ELSE 0

\* *strchr(s, c) = '\0'
CutAt(s, c) == IF strchr(s, c) = 0 THEN s ELSE SubSeq(s, 1, strchr(s, c) - 1)

\* strncmp(s, p, Len(p)) == 0
HasPrefix(s, p) == Len(s) >= Len(p) /\ SubSeq(s, 1, Len(p)) = p

\* strncpy(dst, s, n - 1); dst[n - 1] = '\0'  and  snprintf(dst, n, ...)
Truncate(s, n) == IF Len(s) > n - 1 THEN SubSeq(s, 1, n - 1) ELSE s

trim_newline(s) == CutAt(CutAt(s, "\n"), "\r")


\* strtok(s, " "): the tokens of s between runs of spaces
RECURSIVE strtok(_)
strtok(s) ==
    IF s = <<>> THEN <<>>
    ELSE IF Head(s) = " " THEN strtok(Tail(s))
    ELSE LET sp == strchr(s, " ") IN
         IF sp = 0 THEN <<s>>
         ELSE <<SubSeq(s, 1, sp - 1)>> \o strtok(SubSeq(s, sp + 1, Len(s)))

(***************************************************************************)
(* Program state.                                                          *)
(***************************************************************************)
VARIABLES
    clients,         \* ClientInfo clients[MAX_CLIENTS]
    client_data,     \* ClientData client_data[MAX_CLIENTS]
    next_client_id,  \* static int next_client_id
    routing,         \* Route routing[MAX_CLIENTS + 1][CHANNELS_PER_APP]
    pc,              \* "startup" (before process_routing_file), "main" (select loop)
    sent,            \* bytes written to sockets by the last handler, in order
    out,             \* lines printed on the console by the last handler, in order
    last,            \* the event the last handler served, with its input
    routed,          \* per (client id, out channel): the last two routes acknowledged on the
                     \* console ("Routed ..." / "Preconfigured: ..."), oldest first
    assigned,        \* the identifiers handed out by handle_new_connection, in order
    pending,         \* per slot: bytes received after the last newline of the previous read
    mon,             \* the locals of monitor_mode(); NoMonitor while it is not running
    termios,         \* the terminal's input mode (c_lflag bits ICANON and ECHO of stdin)
    clock,           \* the time of day, as gettimeofday() and time() report it
    logs,            \* the files under logs/: name -> rows written, in order
    open_logs,       \* the log files that are open (fopen without fclose yet), by name
    session,         \* history of the latest recording session: when the toggle key
                     \* started it, the passes of the monitor loop it has lasted
                     \* (the starting pass included), the clients live at its start
    steps            \* handler invocations so far

vars == <<clients, client_data, next_client_id, routing, pc, sent, out, last,
          routed, assigned, pending, mon, termios, clock, logs, open_logs,
          session, steps>>

Ids == 1..MaxId

NoRoute == [in_client_id |-> -1, in_channel |-> -1]

\* no FILE (a NULL log_file, an empty log_filename)
NoFile == <<>>

\* monitor_mode is not running: its locals do not exist
NoMonitor ==
    [fps |-> 0, orig_termios |-> [icanon |-> TRUE, echo |-> TRUE],
     start_time |-> [tv_sec |-> 0, tv_usec |-> 0], recording |-> FALSE,
     log_file |-> NoFile, log_filename |-> NoFile, recorded_client_indices |-> <<>>]

EmptyData == [last_out |-> [c \in Channels |-> <<>>], last_in |-> [c \in Channels |-> <<>>]]

\* main(), lines 124-127: memset of clients, routing (-1) and client_data; mode is
\* the input mode of the terminal the server was started on
InitOn(mode) ==
    /\ clients = [i \in Slots |-> [sockfd |-> 0, client_id |-> 0, active |-> FALSE, name |-> <<>>]]
    /\ client_data = [i \in Slots |-> EmptyData]
    /\ next_client_id = 1
    /\ routing = [r \in RouteRows |-> [c \in Channels |-> NoRoute]]
    /\ pc = "startup"
    /\ sent = <<>>
    /\ out = <<>>
    /\ last = [op |-> "init", slot |-> -1, data |-> <<>>, carry |-> <<>>]
    /\ routed = [a \in Ids |-> [c \in Channels |-> <<>>]]
    /\ assigned = <<>>
    /\ pending = [i \in Slots |-> <<>>]
    /\ mon = NoMonitor
    /\ termios = mode
    /\ clock = [tv_sec |-> 0, tv_usec |-> 0]
    /\ logs = [n \in {} |-> <<>>]
    /\ open_logs = <<>>
    /\ session = [start |-> [tv_sec |-> 0, tv_usec |-> 0], ticks |-> 0, ids |-> <<>>]
    /\ steps = 0

Init == InitOn([icanon |-> TRUE, echo |-> TRUE])

ActiveSlots == {i \in Slots : clients[i].active}

\* find_client_index: the first active slot holding cid, -1 if there is none
\* (cl is the registry it searches)
find_client_index(cl, cid) ==
    IF \E i \in Slots : cl[i].active /\ cl[i].client_id = cid
    THEN CHOOSE i \in Slots : /\ cl[i].active /\ cl[i].client_id = cid
                              /\ \A j \in 0..(i - 1) : ~(cl[j].active /\ cl[j].client_id = cid)
    ELSE -1

(***************************************************************************)
(* Connection acceptor.                                                    *)
(***************************************************************************)
\* accept() returns the lowest descriptor that is not open; the open ones are
\* stdin/stdout/stderr, the listening socket and the active clients' sockets
AcceptFd ==
    CHOOSE fd \in (SERVER_FD + 1)..(SERVER_FD + 1 + MAX_CLIENTS) :
        /\ \A i \in ActiveSlots : clients[i].sockfd # fd
        /\ \A g \in (SERVER_FD + 1)..(fd - 1) : \E i \in ActiveSlots : clients[i].sockfd = g

FreeSlotOrFirst ==
    IF \E i \in Slots : ~clients[i].active
    THEN CHOOSE i \in Slots : ~clients[i].active /\ \A j \in 0..(i - 1) : clients[j].active
    ELSE 0

\* lines 212-218: the first slot that is not active, -1 if all are
FreeSlot ==
    IF \E i \in Slots : ~clients[i].active
    THEN CHOOSE i \in Slots : ~clients[i].active /\ \A j \in 0..(i - 1) : clients[j].active
    ELSE -1

ServerFullMsg == <<"Server full.", "\n">>

Greeting(cid) ==
    <<"Welcome to Switchboard. You are client_id=">> \o Dec(cid)
        \o <<", with 5 in / 5 out.", "\n">>

ClientName(cid) == <<"C", "l", "i", "e", "n", "t">> \o Dec(cid)

\* line 225: next_client_id++
NextIdStuck(cid) == cid

NextId(cid) == cid + 1

handle_new_connection ==
    /\ pc = "main"
    /\ steps < MaxSteps
    /\ next_client_id <= MaxId
    /\ LET client_sock == AcceptFd
           idx == FreeSlot
           cid == next_client_id
       IN IF idx < 0
          THEN /\ sent' = <<[fd |-> client_sock, data |-> ServerFullMsg]>>
               /\ out' = <<>>
               /\ last' = [op |-> "full", slot |-> -1, data |-> <<>>, carry |-> <<>>]
               /\ UNCHANGED <<clients, next_client_id, pending, assigned>>
          ELSE /\ next_client_id' = NextId(cid)
               /\ assigned' = Append(assigned, cid)
               /\ clients' = [clients EXCEPT ![idx] =
                     [sockfd |-> client_sock, client_id |-> cid, active |-> TRUE,
                      name |-> ClientName(cid)]]
               /\ sent' = <<[fd |-> client_sock, data |-> Greeting(cid)]>>
               /\ out' = <<<<"connected", cid, idx>>>>
               /\ last' = [op |-> "accept", slot |-> idx, data |-> <<>>, carry |-> <<>>]
               /\ pending' = [pending EXCEPT ![idx] = <<>>]
    /\ steps' = steps + 1
    /\ UNCHANGED <<client_data, routing, pc, routed, mon, termios, clock, logs, open_logs, session>>

(***************************************************************************)
(* Message dispatcher.                                                     *)
(***************************************************************************)
OutPrefix == <<"o", "u", "t">>

\* lines 262-265: the channel digit of a line "out<digit>...", -1 otherwise
out_channel(start) ==
    IF HasPrefix(start, OutPrefix) /\ Len(start) >= 4 /\ isdigit(start[4])
    THEN DigitVal(start[4])
    ELSE -1

\* lines 268-273: the text after the first ':' and the blanks that follow it
message_text(start) ==
    LET colon == strchr(start, ":") IN
    IF colon = 0 THEN <<>> ELSE SkipBlanks(SubSeq(start, colon + 1, Len(start)))

\* lines 283-287: snprintf(outbuf, sizeof(outbuf), "in%d from client%d: %s\n", ...)
Envelope(in_channel, out_cid, msg) ==
    Truncate(<<"i", "n">> \o Dec(in_channel)
             \o <<" ", "f", "r", "o", "m", " ", "c", "l", "i", "e", "n", "t">>
             \o Dec(out_cid) \o <<":", " ">> \o msg \o <<"\n">>,
             OUTBUF_SIZE)

\* What a read of routing[cid][ch] can yield.  The table has rows 0..MAX_CLIENTS;
\* a row beyond it is memory outside the array, whose content is not determined
\* by the program: any client id (or none) and any channel, in range or not.
WildRoutes ==
    {NoRoute} \cup
    [in_client_id : 1..(next_client_id - 1), in_channel : 0..CHANNELS_PER_APP]

RouteRead(cid, ch) ==
    IF cid \in RouteRows THEN {routing[cid][ch]} ELSE WildRoutes

\* variant: a forward that does not record the envelope in the input cache
StoreInputSkipped(cd, idx_in, in_channel, outbuf) == cd

\* lines 290-291: the write of last_in[in_channel]; an index outside the array
\* does not land in the destination's input cache
StoreInput(cd, idx_in, in_channel, outbuf) ==
    IF in_channel \in Channels
    THEN [cd EXCEPT ![idx_in].last_in[in_channel] = Truncate(outbuf, MAX_MSG_LENGTH)]
    ELSE cd

\* lines 277-293: the route lookup and the forward, for one value r of the entry;
\* st is the state the handler works on: [clients, cd, sent, out, pending]
Forward(i, r, msg, st) ==
    LET out_cid == st.clients[i].client_id
        idx_in == find_client_index(st.clients, r.in_client_id)
        outbuf == Envelope(r.in_channel, out_cid, msg)
    IN IF r.in_client_id >= 0 /\ idx_in >= 0 /\ st.clients[idx_in].active
       THEN [st EXCEPT !.cd = StoreInput(@, idx_in, r.in_channel, outbuf),
                       !.sent = Append(@, [fd |-> st.clients[idx_in].sockfd, data |-> outbuf])]
       ELSE st

\* variant: a dispatcher that caches the payload of the frames it forwards only
DispatchLineCachingForwarded(i, raw, st) ==
    LET start == trim_newline(CutAt(raw, "\r"))
        out_ch == out_channel(start)
    IN IF out_ch >= 0 /\ out_ch < CHANNELS_PER_APP
       THEN LET msg == message_text(start)
                cached(f) == IF f = st THEN st
                             ELSE [f EXCEPT !.cd[i].last_out[out_ch] = Truncate(msg, MAX_MSG_LENGTH)]
            IN {cached(Forward(i, r, msg, st)) : r \in RouteRead(st.clients[i].client_id, out_ch)}
       ELSE {st}

\* lines 256-294: one line of the buffer
DispatchLine(i, raw, st) ==
    LET start == trim_newline(CutAt(raw, "\r"))
        out_ch == out_channel(start)
    IN IF out_ch >= 0 /\ out_ch < CHANNELS_PER_APP
       THEN LET msg == message_text(start)
                st1 == [st EXCEPT !.cd[i].last_out[out_ch] = Truncate(msg, MAX_MSG_LENGTH)]
            IN {Forward(i, r, msg, st1) : r \in RouteRead(st.clients[i].client_id, out_ch)}
       ELSE {st}

\* lines 252-296: every newline-terminated line of buf in order; what follows the
\* last newline is not looked at
RECURSIVE DispatchBuffer(_, _, _)
\* variant: a buffer whose lines are dispatched last line first
DispatchBufferLastFirst(i, buf, st) ==
    LET nl == strchr(buf, "\n") IN
    IF nl = 0 THEN {st}
    ELSE UNION {DispatchLine(i, SubSeq(buf, 1, nl - 1), s1) :
                  s1 \in DispatchBuffer(i, SubSeq(buf, nl + 1, Len(buf)), st)}

DispatchBuffer(i, buf, st) ==
    LET nl == strchr(buf, "\n") IN
    IF nl = 0 THEN {st}
    ELSE UNION {DispatchBuffer(i, SubSeq(buf, nl + 1, Len(buf)), s1) :
                  s1 \in DispatchLine(i, SubSeq(buf, 1, nl - 1), st)}

\* the bytes after the last newline of buf
RECURSIVE AfterLastNewline(_)
AfterLastNewline(buf) ==
    LET nl == strchr(buf, "\n") IN
    IF nl = 0 THEN buf ELSE AfterLastNewline(SubSeq(buf, nl + 1, Len(buf)))

\* the part of the client's byte stream that follows its last newline, after buf
\* has arrived behind the earlier part p
Unterminated(p, buf) == IF strchr(buf, "\n") = 0 THEN p \o buf ELSE AfterLastNewline(buf)

\* variant: a release that also clears the channel caches of the slot
handle_client_input_erasing(st, i, buf) ==
    IF Len(buf) = 0
    THEN {[st EXCEPT !.clients[i].active = FALSE,
                     !.cd[i] = EmptyData,
                     !.out = Append(@, <<"disconnected", st.clients[i].client_id>>),
                     !.pending[i] = <<>>]}
    ELSE DispatchBuffer(i, buf, [st EXCEPT !.pending[i] = Unterminated(@, buf)])

\* handle_client_input(i): buf is what recv() returned, <<>> standing for n <= 0.
\* The set of states the handler can leave.
handle_client_input(st, i, buf) ==
    IF Len(buf) = 0
    THEN {[st EXCEPT !.clients[i].active = FALSE,
                     !.out = Append(@, <<"disconnected", st.clients[i].client_id>>),
                     !.pending[i] = <<>>]}
    ELSE DispatchBuffer(i, buf, [st EXCEPT !.pending[i] = Unterminated(@, buf)])

\* the select loop of main(), lines 187-192: client slot i is readable; what the
\* handler does to everything but the routing table
serve_client(i, buf) ==
    /\ pc = "main"
    /\ steps < MaxSteps
    /\ clients[i].active
    /\ Len(buf) <= BUF_SIZE - 1
    /\ \E res \in handle_client_input([clients |-> clients, cd |-> client_data, sent |-> <<>>,
                                       out |-> <<>>, pending |-> pending], i, buf) :
          /\ clients' = res.clients
          /\ client_data' = res.cd
          /\ sent' = res.sent
          /\ out' = res.out
          /\ pending' = res.pending
    /\ last' = [op |-> IF Len(buf) = 0 THEN "closed" ELSE "read", slot |-> i, data |-> buf,
                carry |-> pending[i]]
    /\ steps' = steps + 1
    /\ UNCHANGED <<next_client_id, pc, routed, assigned, mon, termios, clock, logs,
                   open_logs, session>>

client_ready_forgetting(i, buf) ==
    /\ serve_client(i, buf)
    /\ routing' = IF Len(buf) = 0
                  THEN [r \in RouteRows |-> [c \in Channels |->
                           IF routing[r][c].in_client_id = clients[i].client_id
                           THEN NoRoute ELSE routing[r][c]]]
                  ELSE routing

\* handle_client_input holds no assignment to routing
client_ready(i, buf) ==
    /\ serve_client(i, buf)
    /\ UNCHANGED routing

(***************************************************************************)
(* Routing table updates: console "route" command and startup loader.      *)
(***************************************************************************)
ALL == <<"a", "l", "l">>
ROUTE == <<"r", "o", "u", "t", "e">>
InPrefix == <<"i", "n">>

\* lines 373-381 / 382-390: a channel argument; -1 stands for "no channel parsed"
channel_arg(tok, prefix) ==
    IF isdigit(tok[1]) THEN atoi(tok)
    ELSE IF HasPrefix(tok, prefix) /\ Len(tok) > Len(prefix) /\ isdigit(tok[Len(prefix) + 1])
         THEN DigitVal(tok[Len(prefix) + 1])
         ELSE -1

\* routing[outCID][outCH] = (inCID, inCH).  A row outside 0..MAX_CLIENTS is not
\* part of the table: the store lands outside the array and no entry changes.
StoreRoute(rt, outCID, outCH, inCID, inCH) ==
    IF outCID \in RouteRows
    THEN [rt EXCEPT ![outCID][outCH] = [in_client_id |-> inCID, in_channel |-> inCH]]
    ELSE rt

\* the console acknowledgement "... client<outCID> out<outCH> -> client<inCID> in<inCH>"
Acknowledge(rd, outCID, outCH, inCID, inCH) ==
    IF outCID \in Ids
    THEN [rd EXCEPT ![outCID][outCH] =
             (IF @ = <<>> THEN <<>> ELSE <<@[Len(@)]>>)
                 \o <<[in_client_id |-> inCID, in_channel |-> inCH]>>]
    ELSE rd

route_command_unchecked(st, outCID, outCH, inCID, inCH) ==
    [routing |-> StoreRoute(st.routing, outCID, outCH, inCID, inCH),
     routed |-> Acknowledge(st.routed, outCID, outCH, inCID, inCH),
     out |-> Append(st.out, <<"Routed", outCID, outCH, inCID, inCH>>)]

\* variant: a route_command that stores the route before it looks up the
\* destination client
route_command_storing_early(st, outCID, outCH, inCID, inCH) ==
    IF find_client_index(clients, outCID) < 0
    THEN [st EXCEPT !.out = Append(@, <<"No such client", outCID>>)]
    ELSE IF find_client_index(clients, inCID) < 0
    THEN [st EXCEPT !.routing = StoreRoute(@, outCID, outCH, inCID, inCH),
                    !.out = Append(@, <<"No such client", inCID>>)]
    ELSE [routing |-> StoreRoute(st.routing, outCID, outCH, inCID, inCH),
          routed |-> Acknowledge(st.routed, outCID, outCH, inCID, inCH),
          out |-> Append(st.out, <<"Routed", outCID, outCH, inCID, inCH>>)]

\* route_command; st is [routing, routed, out]
route_command(st, outCID, outCH, inCID, inCH) ==
    IF find_client_index(clients, outCID) < 0
    THEN [st EXCEPT !.out = Append(@, <<"No such client", outCID>>)]
    ELSE IF find_client_index(clients, inCID) < 0
    THEN [st EXCEPT !.out = Append(@, <<"No such client", inCID>>)]
    ELSE [routing |-> StoreRoute(st.routing, outCID, outCH, inCID, inCH),
          routed |-> Acknowledge(st.routed, outCID, outCH, inCID, inCH),
          out |-> Append(st.out, <<"Routed", outCID, outCH, inCID, inCH>>)]

\* variant: a loader that stores the destination channel of a route as 0
route_command_from_file_flat(st, outCID, outCH, inCID, inCH) ==
    [routing |-> StoreRoute(st.routing, outCID, outCH, inCID, 0),
     routed |-> Acknowledge(st.routed, outCID, outCH, inCID, 0),
     out |-> Append(st.out, <<"Preconfigured", outCID, outCH, inCID, 0>>)]

\* route_command_from_file
route_command_from_file(st, outCID, outCH, inCID, inCH) ==
    [routing |-> StoreRoute(st.routing, outCID, outCH, inCID, inCH),
     routed |-> Acknowledge(st.routed, outCID, outCH, inCID, inCH),
     out |-> Append(st.out, <<"Preconfigured", outCID, outCH, inCID, inCH>>)]

\* variant: "all" on the source side pairs channel i with channel i even when
\* the destination channel is given
ExpansionPairwise(outAll, fixedOut, inAll, fixedIn) ==
    IF outAll THEN [k \in 1..CHANNELS_PER_APP |-> <<k - 1, k - 1>>]
    ELSE IF inAll THEN [k \in 1..CHANNELS_PER_APP |-> <<fixedOut, k - 1>>]
    ELSE <<<<fixedOut, fixedIn>>>>

\* variant: "all" on the destination side walks the input channels downwards
ExpansionDescending(outAll, fixedOut, inAll, fixedIn) ==
    IF outAll /\ inAll THEN [k \in 1..CHANNELS_PER_APP |-> <<k - 1, k - 1>>]
    ELSE IF outAll THEN [k \in 1..CHANNELS_PER_APP |-> <<k - 1, fixedIn>>]
    ELSE IF inAll THEN [k \in 1..CHANNELS_PER_APP |-> <<fixedOut, CHANNELS_PER_APP - k>>]
    ELSE <<<<fixedOut, fixedIn>>>>

ExpansionFirstOnly(outAll, fixedOut, inAll, fixedIn) ==
    IF outAll /\ inAll THEN [k \in 1..CHANNELS_PER_APP |-> <<k - 1, 0>>]
    ELSE IF outAll THEN [k \in 1..CHANNELS_PER_APP |-> <<k - 1, fixedIn>>]
    ELSE IF inAll THEN [k \in 1..CHANNELS_PER_APP |-> <<fixedOut, k - 1>>]
    ELSE <<<<fixedOut, fixedIn>>>>

\* lines 399-413: the calls of route_command a parsed command makes, in order, as
\* <<outCH, inCH>> pairs
Expansion(outAll, fixedOut, inAll, fixedIn) ==
    IF outAll /\ inAll THEN [k \in 1..CHANNELS_PER_APP |-> <<k - 1, k - 1>>]
    ELSE IF outAll THEN [k \in 1..CHANNELS_PER_APP |-> <<k - 1, fixedIn>>]
    ELSE IF inAll THEN [k \in 1..CHANNELS_PER_APP |-> <<fixedOut, k - 1>>]
    ELSE <<<<fixedOut, fixedIn>>>>

RECURSIVE ApplyConsole(_, _, _, _)
ApplyConsole(st, outCID, inCID, pairs) ==
    IF pairs = <<>> THEN st
    ELSE ApplyConsole(route_command(st, outCID, Head(pairs)[1], inCID, Head(pairs)[2]),
                      outCID, inCID, Tail(pairs))

RECURSIVE ApplyFile(_, _, _, _)
ApplyFile(st, outCID, inCID, pairs) ==
    IF pairs = <<>> THEN st
    ELSE ApplyFile(route_command_from_file(st, outCID, Head(pairs)[1], inCID, Head(pairs)[2]),
                   outCID, inCID, Tail(pairs))

\* handle_console_input, lines 361-415: the "route" command; st is [routing, routed, out]
console_route(st, cmdline) ==
    LET tok == strtok(cmdline) IN
    IF Len(tok) < 5
    THEN [st EXCEPT !.out = Append(@, <<"Usage: route">>)]
    ELSE LET outCID == atoi(tok[2])
             inCID == atoi(tok[4])
             outAll == (tok[3] = ALL)
             fixedOut == IF outAll THEN -1 ELSE channel_arg(tok[3], OutPrefix)
             inAll == (tok[5] = ALL)
             fixedIn == IF inAll THEN -1 ELSE channel_arg(tok[5], InPrefix)
         IN IF ~outAll /\ (fixedOut < 0 \/ fixedOut >= CHANNELS_PER_APP)
            THEN [st EXCEPT !.out = Append(@, <<"Invalid output channel">>)]
            ELSE IF ~inAll /\ (fixedIn < 0 \/ fixedIn >= CHANNELS_PER_APP)
            THEN [st EXCEPT !.out = Append(@, <<"Invalid input channel">>)]
            ELSE ApplyConsole(st, outCID, inCID, Expansion(outAll, fixedOut, inAll, fixedIn))

\* process_routing_file, lines 511-583: one line of route.rt;
\* st is [routing, routed, out, all_success, cmd_count]
file_line(st, rawline) ==
    LET line == trim_newline(rawline)
        tok == strtok(line)
    IN IF Len(line) = 0 \/ ~HasPrefix(line, ROUTE) THEN st
       ELSE LET st1 == [st EXCEPT !.cmd_count = @ + 1]
                fail(msg) == [st1 EXCEPT !.out = Append(@, <<msg>>), !.all_success = FALSE]
            IN IF tok = <<>> \/ tok[1] # ROUTE THEN fail("Invalid command in routing file")
               ELSE IF Len(tok) < 5 THEN fail("Incomplete routing command in file")
               ELSE LET outCID == atoi(tok[2])
                        inCID == atoi(tok[4])
                        outAll == (tok[3] = ALL)
                        fixedOut == IF outAll THEN -1 ELSE channel_arg(tok[3], OutPrefix)
                        inAll == (tok[5] = ALL)
                        fixedIn == IF inAll THEN -1 ELSE channel_arg(tok[5], InPrefix)
                        outParsed == outAll \/ isdigit(tok[3][1])
                                       \/ (HasPrefix(tok[3], OutPrefix) /\ Len(tok[3]) > 3 /\ isdigit(tok[3][4]))
                        inParsed == inAll \/ isdigit(tok[5][1])
                                       \/ (HasPrefix(tok[5], InPrefix) /\ Len(tok[5]) > 2 /\ isdigit(tok[5][3]))
                    IN IF ~outParsed THEN fail("Invalid output channel in routing file")
                       ELSE IF ~inParsed THEN fail("Invalid input channel in routing file")
                       ELSE IF ~outAll /\ (fixedOut < 0 \/ fixedOut >= CHANNELS_PER_APP)
                       THEN fail("Invalid output channel value in routing file")
                       ELSE IF ~inAll /\ (fixedIn < 0 \/ fixedIn >= CHANNELS_PER_APP)
                       THEN fail("Invalid input channel value in routing file")
                       ELSE LET r == ApplyFile([routing |-> st1.routing, routed |-> st1.routed,
                                                out |-> st1.out],
                                               outCID, inCID,
                                               Expansion(outAll, fixedOut, inAll, fixedIn))
                            IN [st1 EXCEPT !.routing = r.routing, !.routed = r.routed,
                                           !.out = r.out]

\* lines 510-584: the lines of the file in order; a line that is skipped or
\* fails does not end the loop
RECURSIVE file_lines(_, _)
\* variant: a loader that stops reading at the first line it reports
file_lines_aborting(st, lines) ==
    IF lines = <<>> THEN st
    ELSE LET s1 == file_line(st, Head(lines))
         IN IF ~s1.all_success THEN s1 ELSE file_lines(s1, Tail(lines))

file_lines(st, lines) ==
    IF lines = <<>> THEN st ELSE file_lines(file_line(st, Head(lines)), Tail(lines))

(***************************************************************************)
(* Console readers and shutdown.                                           *)
(***************************************************************************)
\* printf("%-<w>.<w>s"): s cut to w characters and padded with blanks to w
Field(s, w) ==
    IF Len(s) >= w THEN SubSeq(s, 1, w) ELSE s \o [k \in 1..(w - Len(s)) |-> " "]

show_help == <<<<"Commands:">>>>

\* list_clients: one line per active slot, in slot order
list_clients(cl) ==
    LET line(i) == <<"clientID", cl[i].client_id, cl[i].sockfd, cl[i].name>>
        slots == SelectSeq([k \in 1..MAX_CLIENTS |-> k - 1], LAMBDA i : cl[i].active)
    IN <<<<"Active clients:">>>> \o [k \in 1..Len(slots) |-> line(slots[k])]

\* list_routes, lines 464-470: the lines for client cid from channel ch on, one
\* sequence per value the reads of routing[cid][..] can yield
RECURSIVE RoutesOfClient(_, _)
RoutesOfClient(cid, ch) ==
    IF ch = CHANNELS_PER_APP THEN {<<>>}
    ELSE {(IF r.in_client_id >= 0
           THEN <<<<"route", cid, ch, r.in_client_id, r.in_channel>>>> ELSE <<>>) \o rest :
              r \in RouteRead(cid, ch), rest \in RoutesOfClient(cid, ch + 1)}

\* list_routes, lines 461-471: the lines for the clients cid .. next_client_id - 1
RECURSIVE RoutesFrom(_)
RoutesFrom(cid) ==
    IF cid >= next_client_id THEN {<<>>}
    ELSE IF find_client_index(clients, cid) < 0 THEN RoutesFrom(cid + 1)
    ELSE {here \o rest : here \in RoutesOfClient(cid, 0), rest \in RoutesFrom(cid + 1)}

list_routes == {<<<<"Routes:">>>> \o body : body \in RoutesFrom(1)}

\* handle_console_input, lines 339-359: print <clientID>
print_command(cmdline) ==
    LET tok == strtok(cmdline) IN
    IF Len(tok) < 2 THEN <<<<"Usage: print <clientID>">>>>
    ELSE LET clientID == atoi(tok[2])
             idx == find_client_index(clients, clientID)
         IN IF idx < 0 THEN <<<<"No active client with clientID", clientID>>>>
            ELSE <<<<"Data for client", clientID, clients[idx].name>>>>
                 \o [k \in 1..CHANNELS_PER_APP |->
                       <<k - 1, Field(client_data[idx].last_out[k - 1], 50),
                                Field(client_data[idx].last_in[k - 1], 50)>>]

\* what the environment can answer to shutdown_tmux
TmuxOutcomes == {"popen", "fgets", "killed"}

\* shutdown_tmux; st is the state handle_console_input works on
shutdown_tmux(st, tmux) ==
    IF tmux = "popen" THEN [st EXCEPT !.out = <<<<"perror", "popen">>>>]
    ELSE IF tmux = "fgets" THEN [st EXCEPT !.out = <<<<"Failed to get tmux session name.">>>>]
    ELSE [st EXCEPT !.out = <<<<"Executing: tmux kill-session">>>>, !.pc = "exited"]

(***************************************************************************)
(* Monitor mode.                                                           *)
(***************************************************************************)
USEC_PER_SEC == 1000000

\* the time of day dt microseconds after t
TimeAdd(t, dt) ==
    [tv_sec |-> t.tv_sec + ((t.tv_usec + dt) \div USEC_PER_SEC),
     tv_usec |-> (t.tv_usec + dt) % USEC_PER_SEC]

\* lines 778-783: delta = now - start_time
TimeDelta(now, start_time) ==
    IF now.tv_usec - start_time.tv_usec < 0
    THEN [tv_sec |-> now.tv_sec - start_time.tv_sec - 1,
          tv_usec |-> now.tv_usec - start_time.tv_usec + USEC_PER_SEC]
    ELSE [tv_sec |-> now.tv_sec - start_time.tv_sec,
          tv_usec |-> now.tv_usec - start_time.tv_usec]

\* printf("%06ld")
Pad6(n) ==
    LET d == Dec(n) IN
    IF Len(d) >= 6 THEN d ELSE [k \in 1..(6 - Len(d)) |-> "0"] \o d

\* line 785: "%ld.%06ld"
Timestamp(delta) == Dec(delta.tv_sec) \o <<".">> \o Pad6(delta.tv_usec)

Quote(s) == <<"\"">> \o s \o <<"\"">>

\* lines 792-795: newlines and carriage returns become blanks
Sanitize(s) == [k \in 1..Len(s) |-> IF s[k] \in {"\n", "\r"} THEN " " ELSE s[k]]

\* lines 734-738: the name of the log file opened at time t; the stamp of the
\* second t.tv_sec stands for its "%Y%m%d_%H%M%S" rendering
LogName(t) ==
    <<"l", "o", "g", "s", "/", "m", "o", "n", "i", "t", "o", "r", "_">>
        \o Dec(t.tv_sec) \o <<".", "c", "s", "v">>

\* the (slot, channel) pairs of the columns after the timestamp, in file order
Cells(idxs) ==
    [k \in 1..(Len(idxs) * CHANNELS_PER_APP) |->
        [idx |-> idxs[((k - 1) \div CHANNELS_PER_APP) + 1],
         ch |-> (k - 1) % CHANNELS_PER_APP]]

\* the columns with a comma after each but the last
RECURSIVE Columns(_)
Columns(texts) ==
    IF Len(texts) = 0 THEN <<>>
    ELSE IF Len(texts) = 1 THEN texts[1]
    ELSE texts[1] \o <<",">> \o Columns(Tail(texts))

\* lines 750-759: the header row of a log file
HeaderRow(cl, idxs) ==
    LET cells == Cells(idxs) IN
    <<"t", "i", "m", "e", "s", "t", "a", "m", "p", ",">>
        \o Columns([k \in 1..Len(cells) |->
                       <<"c", "l", "i", "e", "n", "t">> \o Dec(cl[cells[k].idx].client_id)
                           \o <<"_", "c", "h">> \o Dec(cells[k].ch)])

\* lines 785-801: a data row of a log file
DataRow(cd, idxs, delta) ==
    LET cells == Cells(idxs) IN
    Quote(Timestamp(delta)) \o <<",">>
        \o Columns([k \in 1..Len(cells) |->
                       Quote(Sanitize(Truncate(cd[cells[k].idx].last_out[cells[k].ch],
                                               MAX_MSG_LENGTH)))])

\* lines 744-748: the active slots, in slot order
ActiveSnapshot(cl) ==
    SelectSeq([k \in 1..MAX_CLIENTS |-> k - 1], LAMBDA i : cl[i].active)

\* fopen(name, "w") followed by the header row: the file is created or emptied
CreateLog(lg, name, header) ==
    [n \in DOMAIN lg \cup {name} |-> IF n = name THEN <<header>> ELSE lg[n]]

\* what tcgetattr / tcsetattr can answer on entry
TcOutcomes == {"ok", "tcgetattr", "tcsetattr"}

DEFAULT_MONITOR_FPS == 2

\* handle_console_input, lines 326-335: the FPS argument of "monitor [FPS]"
monitor_fps(cmdline) ==
    LET tok == strtok(cmdline) IN
    IF Len(tok) >= 2 /\ atoi(tok[2]) > 0 THEN atoi(tok[2]) ELSE DEFAULT_MONITOR_FPS

\* monitor_mode, lines 665-689: entry; st is the state handle_console_input works
\* on, tc the answer of the terminal, dt the time since the clock was last read
monitor_mode(st, fps, tc, dt) ==
    IF tc # "ok" THEN [st EXCEPT !.out = <<<<"perror", tc>>>>]
    ELSE LET now == TimeAdd(st.clock, dt) IN
         [st EXCEPT !.termios = [icanon |-> FALSE, echo |-> FALSE],
                    !.clock = now,
                    !.mon = [fps |-> fps, orig_termios |-> st.termios, start_time |-> now,
                             recording |-> FALSE, log_file |-> NoFile,
                             log_filename |-> NoFile, recorded_client_indices |-> <<>>],
                    !.pc = "monitor",
                    !.out = <<<<"Entering monitor mode", fps>>>>]

\* variant: a monitor loop that leaves the readable clients unserved
ServeReadySkipping(st, i, ready) == {st}

\* lines 716-720: the readable clients from slot i on, in slot order; ready maps
\* the readable slots to what recv() returns; st carries clients, cd, sent, out,
\* pending through the handlers
RECURSIVE ServeReady(_, _, _)
\* variant: a monitor loop that, after the readable clients, accepts a
\* connection into the first free slot
ServeReadyAccepting(st, i, ready) ==
    IF i = MAX_CLIENTS
    THEN IF \E f \in Slots : ~st.clients[f].active
         THEN LET f == CHOOSE f \in Slots : ~st.clients[f].active
              IN {[st EXCEPT !.clients[f] = [sockfd |-> SERVER_FD + 1 + MAX_CLIENTS,
                                            client_id |-> next_client_id, active |-> TRUE,
                                            name |-> ClientName(next_client_id)]]}
         ELSE {st}
    ELSE IF st.clients[i].active /\ i \in DOMAIN ready
    THEN UNION {ServeReady(s1, i + 1, ready) : s1 \in handle_client_input(st, i, ready[i])}
    ELSE ServeReady(st, i + 1, ready)

ServeReady(st, i, ready) ==
    IF i = MAX_CLIENTS THEN {st}
    ELSE IF st.clients[i].active /\ i \in DOMAIN ready
    THEN UNION {ServeReady(s1, i + 1, ready) : s1 \in handle_client_input(st, i, ready[i])}
    ELSE ServeReady(st, i + 1, ready)

\* fclose(f): one open stream of the file named f is closed
fclose(open, f) ==
    IF \E k \in 1..Len(open) : open[k] = f
    THEN LET k == CHOOSE k \in 1..Len(open) : open[k] = f
         IN SubSeq(open, 1, k - 1) \o SubSeq(open, k + 1, Len(open))
    ELSE open

\* variant: a toggle-off that leaves the log file open
ToggleRecordingLeaking(w, now, fopen_ok) ==
    IF ~w.mon.recording
    THEN LET name == LogName(now) IN
         IF ~fopen_ok
         THEN [w EXCEPT !.mon.log_filename = name, !.mon.log_file = NoFile,
                        !.out = Append(@, <<"perror", "fopen for log file">>)]
         ELSE LET idxs == ActiveSnapshot(w.clients) IN
              [w EXCEPT !.mon.log_filename = name, !.mon.log_file = name,
                        !.mon.recorded_client_indices = idxs,
                        !.mon.recording = TRUE,
                        !.open = Append(@, name),
                        !.logs = CreateLog(@, name, HeaderRow(w.clients, idxs))]
    ELSE [w EXCEPT !.mon.log_file = NoFile, !.mon.recording = FALSE]

\* variant: a toggle-on that turns recording on although fopen failed
ToggleRecordingIgnoringFailure(w, now, fopen_ok) ==
    IF ~w.mon.recording
    THEN LET name == LogName(now) IN
         IF ~fopen_ok
         THEN [w EXCEPT !.mon.log_filename = name, !.mon.log_file = NoFile,
                        !.mon.recording = TRUE,
                        !.out = Append(@, <<"perror", "fopen for log file">>)]
         ELSE LET idxs == ActiveSnapshot(w.clients) IN
              [w EXCEPT !.mon.log_filename = name, !.mon.log_file = name,
                        !.mon.recorded_client_indices = idxs,
                        !.mon.recording = TRUE,
                        !.open = Append(@, name),
                        !.logs = CreateLog(@, name, HeaderRow(w.clients, idxs))]
    ELSE [w EXCEPT !.mon.log_file = NoFile, !.mon.recording = FALSE,
                   !.open = IF w.mon.log_file # NoFile THEN fclose(@, w.mon.log_file) ELSE @]

\* lines 730-769: the key R; w adds mon, logs, open (the open log files) and quit
\* to the handlers' state
ToggleRecording(w, now, fopen_ok) ==
    IF ~w.mon.recording
    THEN LET name == LogName(now) IN
         IF ~fopen_ok
         THEN [w EXCEPT !.mon.log_filename = name, !.mon.log_file = NoFile,
                        !.out = Append(@, <<"perror", "fopen for log file">>)]
         ELSE LET idxs == ActiveSnapshot(w.clients) IN
              [w EXCEPT !.mon.log_filename = name, !.mon.log_file = name,
                        !.mon.recorded_client_indices = idxs,
                        !.mon.recording = TRUE,
                        !.open = Append(@, name),
                        !.logs = CreateLog(@, name, HeaderRow(w.clients, idxs))]
    ELSE [w EXCEPT !.mon.log_file = NoFile, !.mon.recording = FALSE,
                   !.open = IF w.mon.log_file # NoFile THEN fclose(@, w.mon.log_file) ELSE @]

\* lines 723-772: the key read from the terminal; "" when there is none
Keypress(w, key, now, fopen_ok) ==
    IF key \in {"Q", "q"} THEN [w EXCEPT !.quit = TRUE]
    ELSE IF key \in {"R", "r"} THEN ToggleRecording(w, now, fopen_ok)
    ELSE w

\* variant: a row written to the file last named, recording or not
WriteRowAfterClose(w, now) ==
    IF w.mon.log_filename \in DOMAIN w.logs
    THEN [w EXCEPT !.logs[w.mon.log_filename] =
              Append(@, DataRow(w.cd, w.mon.recorded_client_indices,
                                TimeDelta(now, w.mon.start_time)))]
    ELSE w

\* variant: the pass that reads the quit key writes no row
WriteRowUnlessQuit(w, now) ==
    IF w.mon.recording /\ w.mon.log_file # NoFile /\ ~w.quit
    THEN [w EXCEPT !.logs[w.mon.log_file] =
              Append(@, DataRow(w.cd, w.mon.recorded_client_indices,
                                TimeDelta(now, w.mon.start_time)))]
    ELSE w

\* variant: an iteration that writes no row
WriteRowSkipped(w, now) == w

\* variant: a row over the clients active now instead of the snapshot
WriteRowLive(w, now) ==
    IF w.mon.recording /\ w.mon.log_file # NoFile
    THEN [w EXCEPT !.logs[w.mon.log_file] =
              Append(@, DataRow(w.cd, ActiveSnapshot(w.clients),
                                TimeDelta(now, w.mon.start_time)))]
    ELSE w

\* lines 775-803: the row of this iteration
WriteRow(w, now) ==
    IF w.mon.recording /\ w.mon.log_file # NoFile
    THEN [w EXCEPT !.logs[w.mon.log_file] =
              Append(@, DataRow(w.cd, w.mon.recorded_client_indices,
                                TimeDelta(now, w.mon.start_time)))]
    ELSE w

\* variant: a view that releases the clients it shows
DisplayReleasing(w) ==
    LET slots == ActiveSnapshot(w.clients)
        line(i) == <<"client", w.clients[i].client_id,
                     [k \in 1..CHANNELS_PER_APP |-> Field(w.cd[i].last_out[k - 1], 10)]>>
    IN [w EXCEPT !.out = @ \o <<<<"=== Monitoring Mode", w.mon.fps>>,
                                 IF w.mon.recording
                                 THEN <<"Recording: ON", w.mon.log_filename>>
                                 ELSE <<"Recording: OFF">>>>
                                \o [k \in 1..Len(slots) |-> line(slots[k])],
                 !.clients = [i \in Slots |-> [@[i] EXCEPT !.active = FALSE]]]

\* lines 806-825: the monitoring view
Display(w) ==
    LET slots == ActiveSnapshot(w.clients)
        line(i) == <<"client", w.clients[i].client_id,
                     [k \in 1..CHANNELS_PER_APP |-> Field(w.cd[i].last_out[k - 1], 10)]>>
    IN [w EXCEPT !.out = @ \o <<<<"=== Monitoring Mode", w.mon.fps>>,
                                 IF w.mon.recording
                                 THEN <<"Recording: ON", w.mon.log_filename>>
                                 ELSE <<"Recording: OFF">>>>
                                \o [k \in 1..Len(slots) |-> line(slots[k])]]

\* line 832: tcsetattr(STDIN_FILENO, TCSANOW, &orig_termios)
RestoredTermiosCooked(m) == [icanon |-> TRUE, echo |-> TRUE]

RestoredTermios(m) == m.orig_termios

\* monitor_mode, lines 692-836: one pass of the loop, and what follows the loop
\* when the pass ends it.  select_ok: select() did not fail; ready: the readable
\* client slots with what recv() returns on each; key: the key read from the
\* terminal ("" for none); fopen_ok: whether fopen() of a log file succeeds;
\* dt: the time since the clock was last read.
monitor_iteration(select_ok, ready, key, fopen_ok, dt) ==
    /\ pc = "monitor"
    /\ steps < MaxSteps
    /\ DOMAIN ready \subseteq ActiveSlots
    \* an input the pass does not consume has one value only
    /\ ~select_ok => (DOMAIN ready = {} /\ key = "")
    /\ ~fopen_ok => (select_ok /\ key \in {"R", "r"} /\ ~mon.recording)
    /\ LET now == TimeAdd(clock, dt)
           w0 == [clients |-> clients, cd |-> client_data, sent |-> <<>>, out |-> <<>>,
                  pending |-> pending, mon |-> mon, logs |-> logs, open |-> open_logs,
                  quit |-> FALSE]
           served == IF select_ok THEN ServeReady(w0, 0, ready)
                     ELSE {[w0 EXCEPT !.out = <<<<"perror", "select in monitor_mode">>>>]}
       IN \E w1 \in served :
             LET wk == IF select_ok THEN Keypress(w1, key, now, fopen_ok) ELSE w1
                 w == IF select_ok THEN Display(WriteRow(wk, now)) ELSE w1
             IN /\ session' =
                      IF ~mon.recording /\ wk.mon.recording
                      THEN [start |-> now, ticks |-> 1,
                            ids |-> [k \in 1..Len(wk.mon.recorded_client_indices) |->
                                       wk.clients[wk.mon.recorded_client_indices[k]].client_id]]
                      ELSE IF select_ok /\ mon.recording /\ wk.mon.recording
                      THEN [session EXCEPT !.ticks = @ + 1]
                      ELSE session
                /\ clients' = w.clients
                /\ client_data' = w.cd
                /\ sent' = w.sent
                /\ pending' = w.pending
                /\ logs' = w.logs
                /\ clock' = now
                /\ IF w.quit \/ ~select_ok
                   THEN /\ mon' = NoMonitor
                        /\ open_logs' = IF w.mon.log_file # NoFile
                                        THEN fclose(w.open, w.mon.log_file) ELSE w.open
                        /\ termios' = RestoredTermios(mon)
                        /\ out' = Append(w.out, <<"Exiting monitor mode.">>)
                        /\ pc' = "main"
                   ELSE /\ mon' = w.mon
                        /\ open_logs' = w.open
                        /\ out' = w.out
                        /\ UNCHANGED <<termios, pc>>
    /\ last' = [op |-> "tick", slot |-> -1, data |-> <<>>, carry |-> <<>>,
                key |-> key, ready |-> ready, select_ok |-> select_ok,
                fopen_ok |-> fopen_ok]
    /\ steps' = steps + 1
    /\ UNCHANGED <<next_client_id, routing, routed, assigned>>

(***************************************************************************)
(* Operator console.                                                       *)
(***************************************************************************)
HELP == <<"h", "e", "l", "p">>
LIST == <<"l", "i", "s", "t">>
ROUTES == <<"r", "o", "u", "t", "e", "s">>
EXIT == <<"e", "x", "i", "t">>
MONITOR == <<"m", "o", "n", "i", "t", "o", "r">>
PRINT == <<"p", "r", "i", "n", "t">>

\* the time between two readings of the clock, in microseconds
Dts == {300000}

\* handle_console_input, lines 305-416: the states the command cmdline can leave;
\* st is [routing, routed, out, pc, mon, termios, clock]
console_command(st, cmdline) ==
    IF cmdline = <<>> THEN {st}
    ELSE IF cmdline = HELP THEN {[st EXCEPT !.out = show_help]}
    ELSE IF cmdline = LIST THEN {[st EXCEPT !.out = list_clients(clients)]}
    ELSE IF cmdline = ROUTES THEN {[st EXCEPT !.out = lines] : lines \in list_routes}
    ELSE IF cmdline = EXIT THEN {shutdown_tmux(st, tmux) : tmux \in TmuxOutcomes}
    ELSE IF HasPrefix(cmdline, MONITOR)
    THEN {monitor_mode(st, monitor_fps(cmdline), tc, dt) : tc \in TcOutcomes, dt \in Dts}
    ELSE IF HasPrefix(cmdline, PRINT) THEN {[st EXCEPT !.out = print_command(cmdline)]}
    ELSE IF HasPrefix(cmdline, ROUTE)
    THEN LET r == console_route([routing |-> st.routing, routed |-> st.routed,
                                 out |-> <<>>], cmdline)
         IN {[st EXCEPT !.routing = r.routing, !.routed = r.routed, !.out = r.out]}
    ELSE {[st EXCEPT !.out = <<<<"Unknown command", cmdline>>>>]}

\* handle_console_input: one line typed by the operator
handle_console_input(cmdline0) ==
    /\ pc = "main"
    /\ steps < MaxSteps
    /\ \E res \in console_command([routing |-> routing, routed |-> routed, out |-> <<>>,
                                   pc |-> pc, mon |-> mon, termios |-> termios,
                                   clock |-> clock], trim_newline(cmdline0)) :
          /\ routing' = res.routing
          /\ routed' = res.routed
          /\ out' = res.out
          /\ pc' = res.pc
          /\ mon' = res.mon
          /\ termios' = res.termios
          /\ clock' = res.clock
    /\ sent' = <<>>
    /\ last' = [op |-> "console", slot |-> -1, data |-> cmdline0, carry |-> <<>>]
    /\ steps' = steps + 1
    /\ UNCHANGED <<clients, client_data, next_client_id, pending, assigned, logs,
                   open_logs, session>>

\* process_routing_file: called once by main() before the select loop.
\* file.exists is whether fopen("route.rt") succeeds.
process_routing_file(file) ==
    /\ pc = "startup"
    /\ IF ~file.exists
       THEN /\ out' = <<<<"Routing file 'route.rt' not found.">>>>
            /\ UNCHANGED <<routing, routed>>
       ELSE LET res == file_lines([routing |-> routing, routed |-> routed, out |-> <<>>,
                                   all_success |-> TRUE, cmd_count |-> 0], file.lines)
            IN /\ routing' = res.routing
               /\ routed' = res.routed
               /\ out' = Append(res.out,
                                IF ~res.all_success \/ res.cmd_count = 0
                                THEN <<"Error processing routing file or no valid commands found.">>
                                ELSE <<"Routing file executed successfully.">>)
    /\ pc' = "main"
    /\ sent' = <<>>
    /\ last' = [op |-> "loader", slot |-> -1, data |-> file.lines, carry |-> <<>>]
    /\ UNCHANGED <<clients, client_data, next_client_id, pending, assigned, steps,
                   mon, termios, clock, logs, open_logs, session>>

(***************************************************************************)
(* Inputs.                                                                 *)
(***************************************************************************)
RECURSIVE Join(_)
Join(toks) ==
    IF Len(toks) = 0 THEN <<>>
    ELSE IF Len(toks) = 1 THEN toks[1]
    ELSE toks[1] \o <<" ">> \o Join(Tail(toks))

RouteLine(a, b, c, d) == Join(<<ROUTE, a, b, c, d>>)

\* the frame "out<c>: <X>"
OutFrame(c, X) == OutPrefix \o Dec(c) \o <<":", " ">> \o X

Payloads == {<<"x">>}

\* console lines: a route between the first two clients with different channel
\* numbers, an overwrite of it, a bulk route back, and a route and its overwrite
\* from the first client whose identifier is beyond the last row of the table
ConsoleLines ==
    { RouteLine(Dec(1), Dec(0), Dec(2), Dec(1)),
      RouteLine(Dec(1), Dec(0), Dec(1), Dec(0)),
      RouteLine(Dec(2), ALL, Dec(1), ALL),
      RouteLine(Dec(MAX_CLIENTS + 1), Dec(0), Dec(2), Dec(0)),
      RouteLine(Dec(MAX_CLIENTS + 1), Dec(0), Dec(MAX_CLIENTS + 1), Dec(1)) }

ClientReads == {OutFrame(c, X) \o <<"\n">> : c \in Channels, X \in Payloads}

FileLines ==
    { RouteLine(Dec(2), Dec(1), Dec(1), Dec(0)),
      <<"#">> }

RECURSIVE SeqsUpTo(_, _)
SeqsUpTo(S, n) ==
    IF n = 0 THEN {<<>>}
    ELSE LET shorter == SeqsUpTo(S, n - 1)
         IN shorter \cup {Append(q, x) : q \in {t \in shorter : Len(t) = n - 1}, x \in S}

Files ==
    {[exists |-> FALSE, lines |-> <<>>]}
        \cup {[exists |-> TRUE, lines |-> q] : q \in SeqsUpTo(FileLines, MaxFileLines)}

\* a frame cut in two by the transport, and a stray byte ahead of a frame
PartialReads ==
    { OutPrefix \o Dec(0) \o <<":", " ">>,
      <<"x", "\n">>,
      <<"y">> }

FramesConsoleLines == {RouteLine(Dec(1), Dec(0), Dec(2), Dec(1))}

Next ==
    \/ \E file \in Files : process_routing_file(file)
    \/ handle_new_connection
    \/ \E i \in Slots, buf \in ClientReads \cup {<<>>} : client_ready(i, buf)
    \/ \E cmdline \in ConsoleLines : handle_console_input(cmdline)

Spec == Init /\ [][Next]_vars

\* the same server with reads that do not end at a frame boundary
NextFrames ==
    \/ \E file \in Files : process_routing_file(file)
    \/ handle_new_connection
    \/ \E i \in Slots, buf \in ClientReads \cup PartialReads \cup {<<>>} : client_ready(i, buf)
    \/ \E cmdline \in FramesConsoleLines : handle_console_input(cmdline)

SpecFrames == Init /\ [][NextFrames]_vars

\* the server with the operator entering and leaving monitor mode
MonitorConsoleLines == {RouteLine(Dec(1), Dec(0), Dec(2), Dec(1)), MONITOR}

MonitorReads == {OutFrame(0, <<"x">>) \o <<"\n">>, <<>>}

\* the readable slots of one pass, each with what recv() returns
ReadySets ==
    UNION {[S -> MonitorReads] : S \in {T \in SUBSET Slots : Cardinality(T) <= 1}}
        \cup {[i \in Slots |-> OutFrame(0, <<"x">>) \o <<"\n">>]}

Keys == {"", "Q", "R"}

MonitorFiles ==
    { [exists |-> FALSE, lines |-> <<>>],
      [exists |-> TRUE, lines |-> <<RouteLine(Dec(2), Dec(1), Dec(1), Dec(0))>>] }

NextMonitor ==
    \/ \E file \in MonitorFiles : process_routing_file(file)
    \/ handle_new_connection
    \/ \E i \in Slots : client_ready(i, <<>>)
    \/ \E cmdline \in MonitorConsoleLines : handle_console_input(cmdline)
    \/ \E select_ok \in BOOLEAN, ready \in ReadySets, key \in Keys, fopen_ok \in BOOLEAN,
          dt \in Dts : monitor_iteration(select_ok, ready, key, fopen_ok, dt)

SpecMonitor == Init /\ [][NextMonitor]_vars

\* the server with payloads on both sides of the width of a print column (50)
\* and of the size of a cache entry (MAX_MSG_LENGTH), and the operator routing
\* and printing
ShortPayload == <<"x">>
WidePayload == [k \in 1..40 |-> "y"]
LongPayload == [k \in 1..500 |-> "z"]

CachePayloads == {ShortPayload, WidePayload, LongPayload}

CacheReads ==
    { OutFrame(0, ShortPayload) \o <<"\n">>,
      OutFrame(0, WidePayload) \o <<"\n">>,
      OutFrame(1, LongPayload) \o <<"\n">> }

PrintLine(id) == Join(<<PRINT, Dec(id)>>)

CacheConsoleLines ==
    { RouteLine(Dec(1), Dec(0), Dec(2), Dec(1)),
      RouteLine(Dec(1), Dec(1), Dec(2), Dec(0)),
      PrintLine(2) }

NextCaches ==
    \/ \E file \in MonitorFiles : process_routing_file(file)
    \/ handle_new_connection
    \/ \E i \in Slots, buf \in CacheReads \cup {<<>>} : client_ready(i, buf)
    \/ \E cmdline \in CacheConsoleLines : handle_console_input(cmdline)

SpecCaches == Init /\ [][NextCaches]_vars

\* the server started on a terminal in its usual mode or on one with echo off,
\* and the operator entering and leaving monitor mode
TerminalModes == {[icanon |-> TRUE, echo |-> TRUE], [icanon |-> TRUE, echo |-> FALSE]}

InitTerminal == \E mode \in TerminalModes : InitOn(mode)

NextTerminal ==
    \/ \E file \in MonitorFiles : process_routing_file(file)
    \/ handle_new_connection
    \/ handle_console_input(MONITOR)
    \/ \E select_ok \in BOOLEAN, ready \in ReadySets, key \in Keys, fopen_ok \in BOOLEAN,
          dt \in Dts : monitor_iteration(select_ok, ready, key, fopen_ok, dt)

SpecTerminal == InitTerminal /\ [][NextTerminal]_vars

\* the monitor recording clients whose payloads hold the characters of the log
\* format itself: a payload made of a quote, a comma and a quote
QuotedPayload == <<"\"", ",", "\"">>

RowReads == {OutFrame(0, <<"x">>) \o <<"\n">>, OutFrame(0, QuotedPayload) \o <<"\n">>}

RowReadySets == UNION {[S -> RowReads] : S \in {T \in SUBSET Slots : Cardinality(T) <= 1}}

NextRows ==
    \/ \E file \in MonitorFiles : process_routing_file(file)
    \/ handle_new_connection
    \/ handle_console_input(MONITOR)
    \/ \E select_ok \in BOOLEAN, ready \in RowReadySets, key \in Keys, fopen_ok \in BOOLEAN,
          dt \in Dts : monitor_iteration(select_ok, ready, key, fopen_ok, dt)

SpecRows == Init /\ [][NextRows]_vars

\* the server started on route.rt files that mix route lines with lines the
\* loader reports (a channel that is no number, a missing argument, a channel
\* out of range, a command word that only begins with "route") and lines it
\* passes over (a comment)
BadChannel == <<"x">>
LoaderLines ==
    { RouteLine(Dec(1), Dec(0), Dec(2), Dec(1)),
      RouteLine(Dec(2), ALL, Dec(1), Dec(0)),
      RouteLine(Dec(1), BadChannel, Dec(2), Dec(0)),
      Join(<<ROUTE, Dec(1)>>),
      RouteLine(Dec(1), Dec(CHANNELS_PER_APP + 5), Dec(2), Dec(0)),
      <<"#">> }

LoaderFiles ==
    {[exists |-> FALSE, lines |-> <<>>]}
        \cup {[exists |-> TRUE, lines |-> q] : q \in SeqsUpTo(LoaderLines, MaxLoaderLines)}

LoaderReads == {OutFrame(0, <<"x">>) \o <<"\n">>, <<>>}

NextLoader ==
    \/ \E file \in LoaderFiles : process_routing_file(file)
    \/ handle_new_connection
    \/ \E i \in Slots, buf \in LoaderReads : client_ready(i, buf)

SpecLoader == Init /\ [][NextLoader]_vars

\* the server with an operator who reads: list, routes, print and the monitor
\* with its recorder, next to a route command and a preconfigured route
ReaderConsoleLines ==
    {LIST, ROUTES, PrintLine(1), MONITOR, RouteLine(Dec(1), Dec(0), Dec(2), Dec(1))}

ReaderReads == {OutFrame(0, <<"x">>) \o <<"\n">>, <<>>}

ReaderReadySets == UNION {[S -> ReaderReads] : S \in {{}, {0}}}

\* (as many clients connect as the registry has slots)
NextReaders ==
    \/ \E file \in MonitorFiles : process_routing_file(file)
    \/ next_client_id <= MAX_CLIENTS /\ handle_new_connection
    \/ \E i \in Slots : client_ready(i, <<>>)
    \/ \E cmdline \in ReaderConsoleLines : handle_console_input(cmdline)
    \/ \E select_ok \in BOOLEAN, ready \in ReaderReadySets, key \in Keys, fopen_ok \in BOOLEAN,
          dt \in Dts : monitor_iteration(select_ok, ready, key, fopen_ok, dt)

SpecReaders == Init /\ [][NextReaders]_vars

\* the server with clients that send, next to a frame "out0: x", lines that are
\* no channel message: no "out", no channel number, a channel number out of
\* range (one digit, two digits), no colon
MalformedLines ==
    { <<"h", "e", "l", "l", "o">>,
      OutPrefix \o <<":", " ", "x">>,
      OutPrefix \o Dec(CHANNELS_PER_APP + 5) \o <<":", " ", "x">>,
      OutPrefix \o Dec(12) \o <<":", " ", "x">>,
      OutPrefix \o Dec(1) \o <<" ", "x">> }

MalformedReads == {l \o <<"\n">> : l \in MalformedLines \cup {OutFrame(0, <<"x">>)}}

MalformedConsoleLines ==
    {RouteLine(Dec(1), Dec(0), Dec(2), Dec(1)), RouteLine(Dec(1), Dec(1), Dec(2), Dec(0))}

NextMalformed ==
    \/ \E file \in MonitorFiles : process_routing_file(file)
    \/ handle_new_connection
    \/ \E i \in Slots, buf \in MalformedReads \cup {<<>>} : client_ready(i, buf)
    \/ \E cmdline \in MalformedConsoleLines : handle_console_input(cmdline)

SpecMalformed == Init /\ [][NextMalformed]_vars

\* the server given the same route arguments on the console and in route.rt:
\* channel arguments as numbers, as "all", as out<digit> / in<digit>, one that
\* is no channel and one out of range
ChannelArgs ==
    { <<Dec(0), Dec(1)>>,
      <<ALL, ALL>>,
      <<ALL, Dec(0)>>,
      <<Dec(1), ALL>>,
      <<OutPrefix \o Dec(1), InPrefix \o Dec(0)>>,
      <<BadChannel, Dec(0)>>,
      <<Dec(0), Dec(CHANNELS_PER_APP + 5)>> }

RouteArgLines ==
    {RouteLine(Dec(1), a[1], Dec(2), a[2]) : a \in ChannelArgs}
        \cup {RouteLine(Dec(2), ALL, Dec(1), Dec(1)),
              RouteLine(Dec(MAX_CLIENTS + 1), ALL, Dec(1), Dec(0))}

RouteArgFiles ==
    {[exists |-> FALSE, lines |-> <<>>]}
        \cup {[exists |-> TRUE, lines |-> <<l>>] : l \in RouteArgLines}

NextRoutes ==
    \/ \E file \in RouteArgFiles : process_routing_file(file)
    \/ handle_new_connection
    \/ \E i \in Slots : client_ready(i, <<>>)
    \/ \E cmdline \in RouteArgLines : handle_console_input(cmdline)

SpecRoutes == Init /\ [][NextRoutes]_vars

(***************************************************************************)
(* Properties.                                                             *)
(***************************************************************************)
\* the wire message "in<d> from client<A>: <X>" with its newline
InMessage(d, A, X) ==
    <<"i", "n">> \o Dec(d) \o <<" ", "f", "r", "o", "m", " ", "c", "l", "i", "e", "n", "t">>
        \o Dec(A) \o <<":", " ">> \o X \o <<"\n">>

\* the last handler read exactly the frame "out<c>: <X>" from slot i
ReadFrame(i, c, X) ==
    /\ last.op = "read"
    /\ last.slot = i
    /\ last.data = OutFrame(c, X) \o <<"\n">>

Connected(id) == \E i \in Slots : clients[i].active /\ clients[i].client_id = id

SlotOf(id) == CHOOSE i \in Slots : clients[i].active /\ clients[i].client_id = id

\* the route last applied for (A, c), and the one it replaced
Latest(A, c) == IF routed[A][c] = <<>> THEN NoRoute ELSE routed[A][c][Len(routed[A][c])]

Replaced(A, c) == IF Len(routed[A][c]) < 2 THEN NoRoute ELSE routed[A][c][1]

\* C1: routing correctness.  When the frame "out c: X" has been read from a
\* connected client A whose latest applied route for channel c is (B, d) and B is
\* connected, the handler sent exactly one message, "in d from client A: X", on
\* B's connection, and nothing on any other connection.
C1_RoutingCorrectness ==
    \A i \in Slots, c \in Channels, X \in Payloads :
        LET A == clients[i].client_id
            r == Latest(A, c)
        IN (ReadFrame(i, c, X) /\ r # NoRoute /\ Connected(r.in_client_id))
            => sent = <<[fd |-> clients[SlotOf(r.in_client_id)].sockfd,
                         data |-> InMessage(r.in_channel, A, X)]>>

\* C2: last write wins.  After route A c B d was replaced by route A c C e, a
\* frame on A's channel c is delivered only to C, as "in e from client A: X";
\* nothing is written to B's connection.
C2_LastWriteWins ==
    \A i \in Slots, c \in Channels, X \in Payloads :
        LET A == clients[i].client_id
            new == Latest(A, c)
            old == Replaced(A, c)
        IN (ReadFrame(i, c, X) /\ old # NoRoute /\ old # new)
            => \A k \in 1..Len(sent) :
                  /\ Connected(new.in_client_id)
                  /\ sent[k] = [fd |-> clients[SlotOf(new.in_client_id)].sockfd,
                                data |-> InMessage(new.in_channel, A, X)]

\* C3: stale-route safety.  When the destination B of A's route for channel c is
\* no longer connected, a frame "out c: X" from A sends nothing, A stays
\* connected and the server stays in its event loop.
C3_StaleRouteSafety ==
    \A i \in Slots, c \in Channels, X \in Payloads :
        LET A == clients[i].client_id
            r == Latest(A, c)
        IN (ReadFrame(i, c, X) /\ r # NoRoute /\ ~Connected(r.in_client_id))
            => /\ sent = <<>>
               /\ clients[i].active
               /\ pc = "main"

\* C4: every message a frame handler forwards is written to the connection of a
\* currently active client whose identifier is the destination of the sender's
\* route for that channel (so never to a later client in a reused slot).
C4_ForwardOnlyToRouteDestination ==
    \A i \in Slots, c \in Channels, X \in Payloads :
        ReadFrame(i, c, X)
            => \A k \in 1..Len(sent) :
                  \E j \in Slots :
                     /\ clients[j].active
                     /\ clients[j].sockfd = sent[k].fd
                     /\ clients[j].client_id = Latest(clients[i].client_id, c).in_client_id

\* the N single commands "route A i B i", i = 0..n-1, applied one after another
RECURSIVE OneByOne(_, _, _, _)
OneByOne(st, A, B, n) ==
    IF n = 0 THEN st
    ELSE console_route(OneByOne(st, A, B, n - 1),
                       RouteLine(Dec(A), Dec(n - 1), Dec(B), Dec(n - 1)))

\* C5: bulk expansion.  The console command "route A all B all" leaves the
\* routing table that the N commands "route A i B i", i = 0..N-1, issued one
\* after another from the same state leave.
C5_BulkExpansion ==
    [][\A A \in Ids, B \in Ids :
          (last'.op = "console" /\ last'.data = RouteLine(Dec(A), ALL, Dec(B), ALL))
             => routing' = OneByOne([routing |-> routing, routed |-> routed, out |-> <<>>],
                                    A, B, CHANNELS_PER_APP).routing]_vars

C5_Reached ==
    \E A \in Ids, B \in Ids :
        /\ last.op = "console"
        /\ last.data = RouteLine(Dec(A), ALL, Dec(B), ALL)
        /\ out = [k \in 1..CHANNELS_PER_APP |-> <<"Routed", A, k - 1, B, k - 1>>]
        /\ \A c \in Channels : routing[A][c] = [in_client_id |-> B, in_channel |-> c]

\* C6: registry bound.  A connection arriving while every slot is active is
\* sent "Server full." on its own descriptor and no slot and no identifier
\* changes; active clients hold distinct connections and are at most MAX_CLIENTS.
C6_RegistryBound ==
    /\ [](/\ Cardinality(ActiveSlots) <= MAX_CLIENTS
          /\ \A i \in ActiveSlots, j \in ActiveSlots : i # j => clients[i].sockfd # clients[j].sockfd)
    /\ [][((\A i \in Slots : clients[i].active) /\ last'.op \in {"accept", "full"})
             => /\ last'.op = "full"
                /\ clients' = clients
                /\ next_client_id' = next_client_id
                /\ Len(sent') = 1
                /\ sent'[1].data = ServerFullMsg
                /\ \A i \in Slots : clients[i].sockfd # sent'[1].fd]_vars

C6_Reached ==
    /\ last.op = "full"
    /\ \A i \in Slots : clients[i].active
    /\ sent # <<>>

\* C7: identifiers are handed out in strictly increasing order starting at 1,
\* so no identifier is handed out twice and no two active slots hold the same one.
C7_IdentifiersIncrease ==
    /\ assigned # <<>> => assigned[1] = 1
    /\ \A k \in 1..(Len(assigned) - 1) : assigned[k] < assigned[k + 1]
    /\ \A i \in ActiveSlots : \E k \in 1..Len(assigned) : assigned[k] = clients[i].client_id
    /\ \A i \in ActiveSlots, j \in ActiveSlots : i # j => clients[i].client_id # clients[j].client_id

C7_Reached ==
    /\ Len(assigned) = 3
    /\ \A i \in Slots : clients[i].active
    /\ clients[0].client_id > clients[1].client_id

\* C9 as stated: a console route command with valid channel indices stores its
\* route whether or not the two clients are connected.
C9_ConsoleStoresUnconnected ==
    \A A \in Ids \cap RouteRows, B \in Ids, c \in Channels, d \in Channels :
        (last.op = "console" /\ last.data = RouteLine(Dec(A), Dec(c), Dec(B), Dec(d)))
            => routing[A][c] = [in_client_id |-> B, in_channel |-> d]

\* C9 amended: the console route command is accepted exactly when both clients
\* are connected, and a rejected one leaves the routing table unchanged; the
\* startup loader makes no such check and stores a route of its file while no
\* client is connected.
C9_OnlyLoaderStoresUnconnected ==
    [][\A A \in Ids, B \in Ids, c \in Channels, d \in Channels :
          /\ (last'.op = "console" /\ last'.data = RouteLine(Dec(A), Dec(c), Dec(B), Dec(d)))
                => IF Connected(A) /\ Connected(B)
                   THEN out' = <<<<"Routed", A, c, B, d>>>>
                   ELSE /\ routing' = routing
                        /\ out' \in {<<<<"No such client", A>>>>, <<<<"No such client", B>>>>}
          /\ (last'.op = "loader" /\ last'.data = <<RouteLine(Dec(A), Dec(c), Dec(B), Dec(d))>>)
                => /\ ActiveSlots = {}
                   /\ out'[1] = <<"Preconfigured", A, c, B, d>>
                   /\ A \in RouteRows => routing'[A][c] = [in_client_id |-> B, in_channel |-> d]]_vars

C9_Reached ==
    /\ last.op = "console"
    /\ last.data = RouteLine(Dec(1), Dec(0), Dec(2), Dec(1))
    /\ Connected(1)
    /\ ~Connected(2)
    /\ out = <<<<"No such client", 2>>>>

\* C8: partial-frame handling.  When a read completes a frame whose first bytes
\* arrived in the previous read of the same connection, the frame is dispatched
\* as one complete frame: an output-channel frame "out c: X" sets the sender's
\* cached output to X, and a frame that is not an output-channel frame sends nothing.
C8_PartialFrameRetained ==
    \A i \in Slots :
        (/\ last.op = "read"
         /\ last.slot = i
         /\ last.carry # <<>>
         /\ strchr(last.data, "\n") = Len(last.data))
            => LET frame == last.carry \o SubSeq(last.data, 1, Len(last.data) - 1)
               IN /\ \A c \in Channels, X \in Payloads :
                        frame = OutFrame(c, X) => client_data[i].last_out[c] = X
                  /\ ~HasPrefix(frame, OutPrefix) => sent = <<>>

\* C10: a route entry is never implicitly deleted.  Connecting a client, refusing
\* one, a client's frames, a client's disconnection and a pass of the monitor loop
\* leave every routing entry as it was; the table changes only in the startup
\* loader and in a console command that begins with "route".
C10_RoutesNeverImplicitlyDeleted ==
    [][/\ last'.op \in {"accept", "full", "read", "closed", "tick"} => routing' = routing
       /\ routing' # routing =>
             \/ last'.op = "loader"
             \/ /\ last'.op = "console"
                /\ HasPrefix(trim_newline(last'.data), ROUTE)
                /\ trim_newline(last'.data) # ROUTES]_vars

C10_Reached ==
    /\ last.op = "tick"
    /\ \E i \in DOMAIN last.ready : last.ready[i] = <<>>
    /\ routing[1][0] = [in_client_id |-> 2, in_channel |-> 1]
    /\ Connected(1)
    /\ ~Connected(2)
    /\ \E k \in 1..Len(out) : out[k] = <<"disconnected", 2>>

\* the last handler read the frame "out c: X" from slot i and forwarded it to the
\* client in slot j as "in d from client A: X"
ForwardedFrame(i, c, X, j, d) ==
    /\ ReadFrame(i, c, X)
    /\ clients[i].active
    /\ clients[j].active
    /\ sent = <<[fd |-> clients[j].sockfd, data |-> InMessage(d, clients[i].client_id, X)]>>

\* s without its line terminator
Unterminated1(s) == IF s # <<>> /\ s[Len(s)] = "\n" THEN SubSeq(s, 1, Len(s) - 1) ELSE s

\* C11 as stated: after the frame "out c: X" from A was forwarded over the route
\* (A, c) -> (B, d), A's cached output for c is X, B's cached input for d is the
\* whole envelope "in d from client A: X", and a print B that follows shows that
\* envelope in the input column of channel d.
C11_CachesHoldWholeEnvelope ==
    [][\A i \in Slots, j \in Slots, c \in Channels, d \in Channels, X \in CachePayloads :
          ForwardedFrame(i, c, X, j, d) =>
             LET envelope == InMessage(d, clients[i].client_id, X) IN
             /\ client_data[i].last_out[c] = X
             /\ Unterminated1(client_data[j].last_in[d]) = Unterminated1(envelope)
             /\ (last'.op = "console" /\ last'.data = PrintLine(clients[j].client_id))
                   => HasPrefix(out'[d + 2][3], Unterminated1(envelope))]_vars

\* C11 amended: after the frame "out c: X" from A was forwarded over the route
\* (A, c) -> (B, d), A's cached output for c is X and B's cached input for d is
\* the envelope "in d from client A: X" with its line terminator, cut to
\* MAX_MSG_LENGTH - 1 characters; a print B that follows shows, for channel d, the
\* first 50 characters of each cached text, padded with blanks to 50.
C11_CachesHoldBoundedEnvelope ==
    [][\A i \in Slots, j \in Slots, c \in Channels, d \in Channels, X \in CachePayloads :
          ForwardedFrame(i, c, X, j, d) =>
             LET envelope == InMessage(d, clients[i].client_id, X)
                 cached == Truncate(envelope, MAX_MSG_LENGTH)
             IN /\ client_data[i].last_out[c] = X
                /\ client_data[j].last_in[d] = cached
                /\ (last'.op = "console" /\ last'.data = PrintLine(clients[j].client_id))
                      => out'[d + 2] = <<d, Field(client_data[j].last_out[d], 50),
                                            Field(cached, 50)>>]_vars

C11_Reached ==
    /\ last.op = "console"
    /\ last.data = PrintLine(2)
    /\ \E j \in Slots :
          /\ clients[j].active
          /\ clients[j].client_id = 2
          /\ client_data[j].last_in[0] = Truncate(InMessage(0, 1, LongPayload), MAX_MSG_LENGTH)
          /\ Len(client_data[j].last_in[0]) < Len(InMessage(0, 1, LongPayload))
          /\ client_data[j].last_in[1] = InMessage(1, 1, WidePayload)
          /\ out[2] = <<0, Field(<<>>, 50), Field(client_data[j].last_in[0], 50)>>
          /\ out[3] = <<1, Field(<<>>, 50), Field(client_data[j].last_in[1], 50)>>

\* the index d of last_in[d] in each store of the last handler: lines 283-291 write
\* the destination's last_in[r.in_channel] with the text "in<r.in_channel> from
\* ..." they send
InputCacheIndices ==
    IF last.op \in {"read", "tick"}
    THEN {atoi(SubSeq(sent[k].data, 3, Len(sent[k].data))) : k \in 1..Len(sent)}
    ELSE {}

\* C12: channel indices are always in [0, N).  Every entry of the routing table
\* that is set has a destination channel in [0, N) (its source channel is its
\* column in the table), and every store into an input cache made while a frame
\* was dispatched used a channel index in [0, N).
C12_ChannelIndicesInRange ==
    /\ \A r \in RouteRows, c \in Channels :
          routing[r][c] # NoRoute => routing[r][c].in_channel \in Channels
    /\ InputCacheIndices \subseteq Channels

\* the header row of a log: "timestamp," and the column names
IsHeaderRow(row) == HasPrefix(row, <<"t", "i", "m", "e", "s", "t", "a", "m", "p", ",">>)

\* the timestamp column of a data row "\"<sec>.<usec>\",...", in microseconds
RowMicros(row) ==
    LET dot == strchr(row, ".") IN
    atoi(SubSeq(row, 2, dot - 1)) * USEC_PER_SEC + atoi(SubSeq(row, dot + 1, dot + 6))

IsDataRow(row) ==
    /\ Len(row) >= 11
    /\ row[1] = "\""
    /\ strchr(row, ".") > 2
    /\ \A k \in 1..6 : isdigit(row[strchr(row, ".") + k])
    /\ row[strchr(row, ".") + 7] = "\""
    /\ row[strchr(row, ".") + 8] = ","

\* C13: recording row count.  When the toggle key ends a recording session that
\* has lasted K passes of the monitor loop (the pass that started it included,
\* the pass that ends it not), the session's log holds one header row followed
\* by exactly K data rows, and the timestamp column increases strictly from each
\* data row to the next.
C13_RowCount ==
    [][(/\ mon.recording
        /\ last'.op = "tick"
        /\ last'.select_ok
        /\ last'.key = "R")
          => LET log == logs'[mon.log_file]
                 K == session'.ticks
             IN /\ ~mon'.recording
                /\ Len(log) = 1 + K
                /\ IsHeaderRow(log[1])
                /\ \A k \in 2..Len(log) : IsDataRow(log[k])
                /\ \A k \in 2..(Len(log) - 1) : RowMicros(log[k]) < RowMicros(log[k + 1])]_vars

C13_Reached ==
    /\ last.op = "tick"
    /\ last.key = "R"
    /\ pc = "monitor"
    /\ ~mon.recording
    /\ session.ticks = 3
    /\ mon.log_filename \in DOMAIN logs
    /\ Len(logs[mon.log_filename]) = 4
    /\ RowMicros(logs[mon.log_filename][3]) < RowMicros(logs[mon.log_filename][4])

\* C14: the recorder is a two-state machine.  Monitor mode is entered Idle with
\* no log open; the toggle key read in Idle opens one log and leads to Recording
\* (or, when the log cannot be opened, leaves the recorder Idle); the toggle key
\* read in Recording closes the log and leads to Idle; no other key changes the
\* state; and in every state at most one log file is open, none outside monitor mode.
C14_TwoStateRecorder ==
    /\ [](/\ Len(open_logs) <= 1
          /\ pc # "monitor" => (open_logs = <<>> /\ ~mon.recording))
    /\ [][/\ (pc # "monitor" /\ pc' = "monitor") => (~mon'.recording /\ open_logs' = <<>>)
          /\ (pc = "monitor" /\ pc' = "monitor" /\ last'.select_ok) =>
                /\ (last'.key = "R" /\ ~mon.recording /\ last'.fopen_ok) =>
                      (mon'.recording /\ open_logs' = <<mon'.log_file>> /\ open_logs = <<>>)
                /\ (last'.key = "R" /\ ~mon.recording /\ ~last'.fopen_ok) =>
                      (~mon'.recording /\ open_logs' = <<>>)
                /\ (last'.key = "R" /\ mon.recording) =>
                      (~mon'.recording /\ open_logs' = <<>> /\ open_logs = <<mon.log_file>>)
                /\ last'.key # "R" =>
                      (mon'.recording = mon.recording /\ open_logs' = open_logs)]_vars

C14_Reached ==
    /\ pc = "monitor"
    /\ last.op = "tick"
    /\ last.key = "R"
    /\ mon.recording
    /\ open_logs = <<mon.log_file>>
    /\ Cardinality(DOMAIN logs) = 2

\* the slot whose client_id field holds id, connected or not
SlotHolding(cl, id) == CHOOSE i \in Slots : cl[i].client_id = id

\* the identifiers of the active clients, in slot order
LiveIds(cl) == [k \in 1..Len(ActiveSnapshot(cl)) |-> cl[ActiveSnapshot(cl)[k]].client_id]

\* a row from its first comma on
AfterFirstComma(row) == SubSeq(row, strchr(row, ",") + 1, Len(row))

\* the columns a row must hold for the clients ids, in order: one quoted cached
\* output text per channel of each
ExpectedColumns(cl, cd, ids) ==
    Columns([k \in 1..(Len(ids) * CHANNELS_PER_APP) |->
                Quote(Sanitize(cd[SlotHolding(cl, ids[((k - 1) \div CHANNELS_PER_APP) + 1])]
                                  .last_out[(k - 1) % CHANNELS_PER_APP]))])

ExpectedHeader(ids) ==
    Columns([k \in 1..(Len(ids) * CHANNELS_PER_APP) |->
                <<"c", "l", "i", "e", "n", "t">>
                    \o Dec(ids[((k - 1) \div CHANNELS_PER_APP) + 1])
                    \o <<"_", "c", "h">> \o Dec((k - 1) % CHANNELS_PER_APP)])

\* C15: the clients of a recording are fixed at its start.  The pass that starts
\* a session takes the clients live at that moment, in slot order, and names
\* their columns in the header; every row of the session, the first included,
\* holds the cached output texts of exactly those clients in that order, whether
\* or not they are still connected; the set does not change during the session.
C15_SnapshotFixed ==
    [][(last'.op = "tick" /\ mon'.recording) =>
          LET log == logs'[mon'.log_file]
              row == log[Len(log)]
          IN /\ ~mon.recording =>
                   /\ session'.ids = LiveIds(clients')
                   /\ AfterFirstComma(log[1]) = ExpectedHeader(session'.ids)
             /\ mon.recording =>
                   /\ session'.ids = session.ids
                   /\ log[1] = logs[mon.log_file][1]
             /\ AfterFirstComma(row) = ExpectedColumns(clients', client_data', session'.ids)]_vars

C15_Reached ==
    /\ last.op = "tick"
    /\ mon.recording
    /\ session.ticks >= 2
    /\ \E k \in 1..Len(session.ids) :
          /\ ~Connected(session.ids[k])
          /\ client_data[SlotHolding(clients, session.ids[k])].last_out[0] = <<"x">>
    /\ Len(logs[mon.log_file]) = 1 + session.ticks

\* a time of day in microseconds
Micros(t) == t.tv_sec * USEC_PER_SEC + t.tv_usec

\* C16: the first column of a data row is the time elapsed since the start of the
\* recording session the row belongs to: the row written by a pass at time T of a
\* session started at time S carries T - S, so the first row of a session, which
\* is written by the pass that starts it, carries 0.
C16_TimestampSinceSessionStart ==
    (pc = "monitor" /\ last.op = "tick" /\ mon.recording)
        => LET log == logs[mon.log_file]
           IN RowMicros(log[Len(log)]) = Micros(clock) - Micros(session.start)

RECURSIVE MainLoopServes(_, _, _)
\* variant: a loop that leaves after the first client it has served
MainLoopServesFirst(st, i, ready) ==
    IF \A j \in DOMAIN ready : j < i THEN {st}
    ELSE LET j == CHOOSE j \in DOMAIN ready : j >= i /\ \A h \in DOMAIN ready : h >= i => j <= h
         IN IF st.clients[j].active
            THEN handle_client_input(st, j, ready[j])
            ELSE MainLoopServes(st, j + 1, ready)

MainLoopServes(st, i, ready) ==
    IF \A j \in DOMAIN ready : j < i THEN {st}
    ELSE LET j == CHOOSE j \in DOMAIN ready : j >= i /\ \A h \in DOMAIN ready : h >= i => j <= h
         IN IF st.clients[j].active
            THEN UNION {MainLoopServes(s1, j + 1, ready) :
                          s1 \in handle_client_input(st, j, ready[j])}
            ELSE MainLoopServes(st, j + 1, ready)

\* C18: forwarding continues during monitoring.  A pass of the monitor loop,
\* Idle or Recording, whatever key it reads, leaves the registry, the channel
\* caches and the deliveries exactly as the main event loop would leave them
\* after the same reads from the same clients.
C18_MonitorDispatchesAsMain ==
    [][(pc = "monitor" /\ last'.op = "tick" /\ last'.select_ok) =>
          \E r \in MainLoopServes([clients |-> clients, cd |-> client_data, sent |-> <<>>,
                                   out |-> <<>>, pending |-> pending], 0, last'.ready) :
             /\ clients' = r.clients
             /\ client_data' = r.cd
             /\ sent' = r.sent]_vars

C18_Reached ==
    /\ pc = "monitor"
    /\ last.op = "tick"
    /\ mon.recording
    /\ \E i \in DOMAIN last.ready : last.ready[i] = OutFrame(0, <<"x">>) \o <<"\n">>
    /\ \E j \in Slots :
          /\ clients[j].active
          /\ clients[j].client_id = 2
          /\ sent = <<[fd |-> clients[j].sockfd, data |-> InMessage(1, 1, <<"x">>)]>>
          /\ client_data[j].last_in[1] = InMessage(1, 1, <<"x">>)

\* the number of fields of the row s from position p on, as a reader of
\* comma-separated values counts them: a field that starts with a quote ends at
\* the next quote that is not doubled, and a comma or the end of the row must
\* follow it; any other field ends at the next comma.  -1 if the row is malformed.
RECURSIVE ClosingQuote(_, _)
ClosingQuote(s, p) ==
    IF p > Len(s) THEN 0
    ELSE IF s[p] # "\"" THEN ClosingQuote(s, p + 1)
    ELSE IF p < Len(s) /\ s[p + 1] = "\"" THEN ClosingQuote(s, p + 2)
    ELSE p

RECURSIVE CsvFields(_, _)
CsvFields(s, p) ==
    IF p > Len(s) THEN 1
    ELSE IF s[p] = "\""
    THEN LET q == ClosingQuote(s, p + 1) IN
         IF q = 0 THEN -1
         ELSE IF q = Len(s) THEN 1
         ELSE IF s[q + 1] # "," THEN -1
         ELSE LET rest == CsvFields(s, q + 2) IN IF rest < 0 THEN -1 ELSE 1 + rest
    ELSE LET c == strchr(SubSeq(s, p, Len(s)), ",") IN
         IF c = 0 THEN 1
         ELSE LET rest == CsvFields(s, p + c) IN IF rest < 0 THEN -1 ELSE 1 + rest

\* C19: row integrity.  Whatever the cached payload texts are, the header row and
\* every data row of the log of a recording session have exactly
\* 1 + N * (number of snapshotted clients) fields.  (Stated for the sessions with
\* at least one snapshotted client.)
C19_RowIntegrity ==
    (pc = "monitor" /\ mon.recording /\ Len(mon.recorded_client_indices) > 0) =>
        \A k \in 1..Len(logs[mon.log_file]) :
            CsvFields(logs[mon.log_file][k], 1)
                = 1 + CHANNELS_PER_APP * Len(mon.recorded_client_indices)

\* C20: the log file cannot be opened.  A pass that reads the toggle key in Idle
\* and fails to open the log reports the failure and leaves the recorder Idle: no
\* log is open, no file is created or written, no snapshot is taken; monitor mode
\* goes on and the pass serves its ready clients as usual.  While Idle no pass
\* writes to any file.  A toggle key read after the failure, when the file can be
\* opened, starts a session with its header and first row.
C20_OpenFailureStaysIdle ==
    [][(pc = "monitor" /\ last'.op = "tick" /\ last'.select_ok) =>
          /\ (last'.key = "R" /\ ~mon.recording /\ ~last'.fopen_ok) =>
                /\ pc' = "monitor"
                /\ ~mon'.recording
                /\ mon'.log_file = NoFile
                /\ open_logs' = <<>>
                /\ logs' = logs
                /\ mon'.recorded_client_indices = mon.recorded_client_indices
                /\ session' = session
                /\ \E k \in 1..Len(out') : out'[k] = <<"perror", "fopen for log file">>
                /\ \E r \in MainLoopServes([clients |-> clients, cd |-> client_data,
                                            sent |-> <<>>, out |-> <<>>,
                                            pending |-> pending], 0, last'.ready) :
                      clients' = r.clients /\ client_data' = r.cd /\ sent' = r.sent
          /\ (~mon.recording /\ ~mon'.recording) => logs' = logs
          /\ (/\ last.op = "tick" /\ last.key = "R" /\ ~last.fopen_ok
              /\ last'.key = "R" /\ last'.fopen_ok) =>
                /\ mon'.recording
                /\ session'.ticks = 1
                /\ open_logs' = <<mon'.log_file>>
                /\ Len(logs'[mon'.log_file]) = 2
                /\ IsHeaderRow(logs'[mon'.log_file][1])
                /\ IsDataRow(logs'[mon'.log_file][2])]_vars

C20_Reached ==
    /\ pc = "monitor"
    /\ last.op = "tick"
    /\ last.key = "R"
    /\ ~last.fopen_ok
    /\ ~mon.recording
    /\ mon.log_filename # NoFile
    /\ mon.log_filename \notin DOMAIN logs
    /\ sent # <<>>
    /\ \E k \in 1..Len(out) : out[k] = <<"perror", "fopen for log file">>

\* the routes a well-formed line of route.rt asks for, as <<A, c, B, d>>; the empty
\* set for any other line
WellFormedEntries ==
    [l \in LoaderLines |->
        {e \in (0..MaxId) \X Channels \X (0..MaxId) \X Channels :
            \/ l = RouteLine(Dec(e[1]), Dec(e[2]), Dec(e[3]), Dec(e[4]))
            \/ l = RouteLine(Dec(e[1]), ALL, Dec(e[3]), Dec(e[4]))
            \/ (l = RouteLine(Dec(e[1]), ALL, Dec(e[3]), ALL) /\ e[2] = e[4])}]

RouteLineEntries(l) == WellFormedEntries[l]

LineFailures ==
    { <<"Invalid command in routing file">>,
      <<"Incomplete routing command in file">>,
      <<"Invalid output channel in routing file">>,
      <<"Invalid input channel in routing file">>,
      <<"Invalid output channel value in routing file">>,
      <<"Invalid input channel value in routing file">> }

LoaderError == <<"Error processing routing file or no valid commands found.">>
LoaderNotFound == <<"Routing file 'route.rt' not found.">>

\* C21: the startup loader goes through the whole file.  Every well-formed route
\* line, whatever lines stand before or after it, is applied: an entry of the
\* table holds what the last well-formed line naming it asks for, and is
\* unchanged when no line names it.  Every line that begins with "route" and is
\* not well-formed is reported by one message and changes nothing; a line that
\* does not begin with "route" is passed over.  A missing file is reported, and
\* so is a file without a well-formed route line; the server then enters its
\* main loop.
C21_LoaderSkipsInvalidLines ==
    [][(last'.op = "loader") =>
          LET lines == last'.data
              naming(A, c) == {k \in 1..Len(lines) :
                                  \E e \in RouteLineEntries(lines[k]) : e[1] = A /\ e[2] = c}
              reported == {k \in 1..Len(lines) :
                              HasPrefix(lines[k], ROUTE) /\ RouteLineEntries(lines[k]) = {}}
          IN /\ pc' = "main"
             /\ \/ out' = <<LoaderNotFound>> /\ routing' = routing /\ lines = <<>>
                \/ /\ \A A \in RouteRows, c \in Channels :
                         IF naming(A, c) = {}
                         THEN routing'[A][c] = routing[A][c]
                         ELSE LET k == CHOOSE k \in naming(A, c) : \A j \in naming(A, c) : j <= k
                                  e == CHOOSE e \in RouteLineEntries(lines[k]) :
                                           e[1] = A /\ e[2] = c
                              IN routing'[A][c] = [in_client_id |-> e[3], in_channel |-> e[4]]
                   /\ \A k \in 1..Len(lines) : \A e \in RouteLineEntries(lines[k]) :
                         \E j \in 1..Len(out') :
                            out'[j] = <<"Preconfigured", e[1], e[2], e[3], e[4]>>
                   /\ Cardinality({j \in 1..Len(out') : out'[j] \in LineFailures})
                         = Cardinality(reported)
                   /\ (reported # {} \/ \A k \in 1..Len(lines) : RouteLineEntries(lines[k]) = {})
                         <=> out'[Len(out')] = LoaderError]_vars

C21_Reached ==
    /\ last.op = "loader"
    /\ last.data = << RouteLine(Dec(1), Dec(0), Dec(2), Dec(1)),
                      RouteLine(Dec(1), BadChannel, Dec(2), Dec(0)),
                      RouteLine(Dec(2), ALL, Dec(1), Dec(0)) >>
    /\ routing[1][0] = [in_client_id |-> 2, in_channel |-> 1]
    /\ \A c \in Channels : routing[2][c] = [in_client_id |-> 1, in_channel |-> 0]
    /\ \E j \in 1..Len(out) : out[j] = <<"Invalid output channel in routing file">>
    /\ out[Len(out)] = LoaderError
    /\ pc = "main"

\* the entries of the routing table that are set, as <<A, c, B, d>>
ConfiguredRoutes ==
    {e \in RouteRows \X Channels \X (0..MaxId) \X Channels :
        routing[e[1]][e[2]] = [in_client_id |-> e[3], in_channel |-> e[4]]}

\* the routes a listing shows, as <<A, c, B, d>>
ListedRoutes(lines) ==
    {<<lines[k][2], lines[k][3], lines[k][4], lines[k][5]>> :
        k \in {j \in 1..Len(lines) : lines[j][1] = "route"}}

\* C22: after the command "routes" the listing holds exactly the entries of the
\* routing table that are set, whether or not their clients are connected.
C22_RoutesShowsAllConfigured ==
    (last.op = "console" /\ last.data = ROUTES) => ListedRoutes(out) = ConfiguredRoutes

Undeliverable(A, c) ==
    \/ Latest(A, c) = NoRoute
    \/ ~Connected(Latest(A, c).in_client_id)

\* C24: an output-channel frame read from a client whose channel has no route,
\* or whose route's destination is not connected, is dropped: nothing is sent,
\* no input cache, registry slot or routing entry changes, and nothing of the
\* frame is kept for later; forwarded messages are sent only by the handler
\* that read their frame.
C24_UndeliverableFrameDropped ==
    [][/\ \A i \in Slots, c \in Channels, X \in Payloads :
             (/\ last'.op = "read"
              /\ last'.slot = i
              /\ last'.data = OutFrame(c, X) \o <<"\n">>
              /\ Undeliverable(clients[i].client_id, c))
                => /\ sent' = <<>>
                   /\ \A j \in Slots : client_data'[j].last_in = client_data[j].last_in
                   /\ clients' = clients
                   /\ routing' = routing
                   /\ pending'[i] = <<>>
       /\ \A k \in 1..Len(sent') :
             HasPrefix(sent'[k].data, InPrefix) => last'.op = "read"]_vars

\* the line has the form out<N>:<message> with N a channel index
ChannelMessage(line) ==
    \E c \in Channels : HasPrefix(line, OutPrefix \o Dec(c) \o <<":">>)

\* C25: a line read from a client that is not of the form out<N>: <message>
\* with N a channel index is ignored: nothing is sent and no cache changes.
C25_OtherFramesIgnored ==
    [][\A line \in MalformedLines \cup {OutFrame(0, <<"x">>)} :
          (last'.op = "read" /\ last'.data = line \o <<"\n">> /\ ~ChannelMessage(line))
             => (sent' = <<>> /\ client_data' = client_data)]_vars

\* the descriptors of the connections the server holds open
OpenSockets(cl) == {cl[j].sockfd : j \in {k \in Slots : cl[k].active}}

\* the routing entries that name client id as source or as destination
RoutesNaming(id) ==
    {e \in ConfiguredRoutes : e[1] = id \/ e[3] = id}

\* C26: release.  A read of slot i that returns end-of-stream or an error clears
\* the liveness flag of slot i and closes its connection, logs the disconnect,
\* and changes nothing else: the other fields of the slot, every other slot,
\* every channel cache and every routing entry stay as they are.  From then on
\* the identifier is not connected: a lookup finds no slot for it, and an
\* identifier that was issued and is not connected never becomes connected.
C26_ReleaseOnlyThatClient ==
    [][/\ \A i \in Slots :
             (last'.op = "closed" /\ last'.slot = i)
                => /\ clients[i].active
                   /\ clients' = [clients EXCEPT ![i].active = FALSE]
                   /\ clients[i].sockfd \notin OpenSockets(clients')
                   /\ client_data' = client_data
                   /\ routing' = routing
                   /\ out' = <<<<"disconnected", clients[i].client_id>>>>
                   /\ sent' = <<>>
                   /\ find_client_index(clients', clients[i].client_id) = -1
       /\ \A k \in 1..Len(assigned) :
             ~Connected(assigned[k]) => find_client_index(clients', assigned[k]) = -1]_vars

C26_Reached ==
    \E i \in Slots :
        /\ last.op = "closed"
        /\ last.slot = i
        /\ ~clients[i].active
        /\ client_data[i].last_out[0] # <<>>
        /\ RoutesNaming(clients[i].client_id) # {}
        /\ \E j \in Slots \ {i} : /\ clients[j].active
                                  /\ client_data[j].last_in[1] # <<>>

\* the row of client A with every source channel routed to (B, d)
RowTo(B, d) == [c \in Channels |-> [in_client_id |-> B, in_channel |-> d]]

\* C27: bulk route with a fixed destination channel.  "route A all B d" with d a
\* channel index, given to the console while A and B are connected or read from
\* the startup file, is acknowledged for every source channel in order, sets
\* every entry of row A of the table to (B, d) and changes no other row.
C27_BulkFixedDestination ==
    [][\A A \in Ids, B \in Ids, d \in Channels :
          LET line == RouteLine(Dec(A), ALL, Dec(B), Dec(d))
              stored == IF A \in RouteRows
                        THEN [routing EXCEPT ![A] = RowTo(B, d)]
                        ELSE routing
          IN /\ (last'.op = "console" /\ last'.data = line /\ Connected(A) /\ Connected(B))
                   => /\ routing' = stored
                      /\ out' = [k \in 1..CHANNELS_PER_APP |-> <<"Routed", A, k - 1, B, d>>]
             /\ (last'.op = "loader" /\ last'.data = <<line>>)
                   => /\ routing' = stored
                      /\ SubSeq(out', 1, CHANNELS_PER_APP) =
                            [k \in 1..CHANNELS_PER_APP |-> <<"Preconfigured", A, k - 1, B, d>>]]_vars

C27_Reached ==
    /\ last.op = "console"
    /\ last.data = RouteLine(Dec(1), ALL, Dec(2), Dec(0))
    /\ Connected(1)
    /\ Connected(2)
    /\ routing[1] = RowTo(2, 0)
    /\ routing[2] = RowTo(1, 1)

\* what the startup loader makes of the line when it reads it with the table
\* in its present state
AsFileLine(line) ==
    file_line([routing |-> routing, routed |-> routed, out |-> <<>>,
               all_success |-> TRUE, cmd_count |-> 0], line)

\* C28: the loader and the console read route arguments alike.  For a command
\* "route A x B y" given to the console while A and B are connected: the console
\* accepts it exactly when the loader accepts the same line, the console's
\* acknowledgements name the routes the loader's name, in the same order, and
\* the table the console leaves is the table the loader leaves when it starts
\* from the same table.
C28_LoaderParsesAsConsole ==
    [][\A line \in RouteArgLines :
          (/\ last'.op = "console"
           /\ last'.data = line
           /\ Connected(atoi(strtok(line)[2]))
           /\ Connected(atoi(strtok(line)[4])))
             => LET f == AsFileLine(line)
                IN /\ routing' = f.routing
                   /\ f.all_success <=> (out' # <<>> /\ \A k \in 1..Len(out') : out'[k][1] = "Routed")
                   /\ f.all_success =>
                         /\ Len(out') = Len(f.out)
                         /\ \A k \in 1..Len(out') :
                               /\ f.out[k][1] = "Preconfigured"
                               /\ SubSeq(out'[k], 2, 5) = SubSeq(f.out[k], 2, 5)
                   /\ ~f.all_success => routing' = routing]_vars

C28_Reached ==
    /\ last.op = "console"
    /\ last.data = RouteLine(Dec(1), OutPrefix \o Dec(1), Dec(2), InPrefix \o Dec(0))
    /\ Connected(1)
    /\ Connected(2)
    /\ out = <<<<"Routed", 1, 1, 2, 0>>>>
    /\ routing[1][1] = [in_client_id |-> 2, in_channel |-> 0]
    /\ routing[1][0] = [in_client_id |-> 2, in_channel |-> 1]

(***************************************************************************)
(* One pass of the client loop of main(), with several clients readable.   *)
(***************************************************************************)
\* lines 187-192: the clients that select() reported readable, served in slot
\* order; ready maps each of them to what its recv() returns
main_client_loop(ready) ==
    /\ pc = "main"
    /\ steps < MaxSteps
    /\ DOMAIN ready # {}
    /\ DOMAIN ready \subseteq ActiveSlots
    /\ \A i \in DOMAIN ready : Len(ready[i]) <= BUF_SIZE - 1
    /\ \E res \in MainLoopServes([clients |-> clients, cd |-> client_data, sent |-> <<>>,
                                  out |-> <<>>, pending |-> pending], 0, ready) :
          /\ clients' = res.clients
          /\ client_data' = res.cd
          /\ sent' = res.sent
          /\ out' = res.out
          /\ pending' = res.pending
    /\ last' = [op |-> "pass", slot |-> -1, data |-> <<>>, carry |-> <<>>, ready |-> ready]
    /\ steps' = steps + 1
    /\ UNCHANGED <<next_client_id, routing, pc, routed, assigned, mon, termios, clock,
                   logs, open_logs, session>>

\* a client that fills its read with frames, next to one that sends one frame
\* and one that closes
FloodRead ==
    OutFrame(0, <<"a">>) \o <<"\n">> \o OutFrame(0, <<"b">>) \o <<"\n">>
        \o OutFrame(1, <<"c">>) \o <<"\n">>

SingleRead == OutFrame(0, <<"x">>) \o <<"\n">>

\* both clients readable, or the second one only
PassReadySets ==
    { (0 :> FloodRead @@ 1 :> SingleRead),
      (0 :> SingleRead @@ 1 :> FloodRead),
      (0 :> <<>> @@ 1 :> SingleRead),
      (0 :> FloodRead @@ 1 :> <<>>),
      (1 :> SingleRead) }

PassKeys == {"", "Q"}

\* (as many clients connect as the registry has slots)
NextPasses ==
    \/ \E file \in MonitorFiles : process_routing_file(file)
    \/ next_client_id <= MAX_CLIENTS /\ handle_new_connection
    \/ \E ready \in PassReadySets : main_client_loop(ready)
    \/ \E cmdline \in MonitorConsoleLines : handle_console_input(cmdline)
    \/ \E ready \in PassReadySets, key \in PassKeys, dt \in Dts :
          monitor_iteration(TRUE, ready, key, TRUE, dt)

SpecPasses == Init /\ [][NextPasses]_vars

\* the frames of each read and the payload each leaves as the latest output of
\* a channel (none for a channel the read does not write)
FrameCount(buf) == IF buf = FloodRead THEN 3 ELSE IF buf = <<>> THEN 0 ELSE 1

LatestOutput(buf, old) ==
    IF buf = FloodRead THEN (0 :> <<"b">> @@ 1 :> <<"c">>)
    ELSE IF buf = <<>> THEN old
    ELSE [old EXCEPT ![0] = <<"x">>]

\* the messages of sent forwarded on behalf of client A
ForwardsOf(snt, A) ==
    {k \in 1..Len(snt) :
        \E d \in 0..CHANNELS_PER_APP, X \in {<<"a">>, <<"b">>, <<"c">>, <<"x">>} :
            snt[k].data = InMessage(d, A, X)}

C30_FreshLogPerSession ==
    [][(last'.op = "tick" /\ ~mon.recording /\ mon'.recording) =>
          /\ mon'.log_file \notin DOMAIN logs
          /\ \A n \in DOMAIN logs : logs'[n] = logs[n]]_vars

(***************************************************************************)
(* The ways the server process ends.                                       *)
(***************************************************************************)
\* main(), lines 130-151: socket(), bind() or listen() fails; the diagnostic,
\* then return 1
server_socket_failed(call) ==
    /\ pc = "startup"
    /\ pc' = "exited"
    /\ out' = <<<<"perror", call>>>>
    /\ sent' = <<>>
    /\ last' = [op |-> "exit", slot |-> -1, data |-> <<>>, carry |-> <<>>,
                call |-> call, status |-> 1]
    /\ UNCHANGED <<clients, client_data, next_client_id, routing, routed, assigned,
                   pending, mon, termios, clock, logs, open_logs, session, steps>>

\* main(), lines 178-182 and 198-199: select() of the main loop fails; the
\* diagnostic, break, close(server_fd), return 0
select_failed ==
    /\ pc = "main"
    /\ steps < MaxSteps
    /\ pc' = "exited"
    /\ out' = <<<<"perror", "select">>>>
    /\ sent' = <<>>
    /\ last' = [op |-> "exit", slot |-> -1, data |-> <<>>, carry |-> <<>>,
                call |-> "select", status |-> 0]
    /\ steps' = steps + 1
    /\ UNCHANGED <<clients, client_data, next_client_id, routing, routed, assigned,
                   pending, mon, termios, clock, logs, open_logs, session>>

\* handle_new_connection, lines 206-210: accept() fails; the diagnostic, return
accept_failed ==
    /\ pc = "main"
    /\ steps < MaxSteps
    /\ out' = <<<<"perror", "accept">>>>
    /\ sent' = <<>>
    /\ last' = [op |-> "accept_failed", slot |-> -1, data |-> <<>>, carry |-> <<>>]
    /\ steps' = steps + 1
    /\ UNCHANGED <<clients, client_data, next_client_id, routing, pc, routed, assigned,
                   pending, mon, termios, clock, logs, open_logs, session>>

SocketCalls == {"socket", "bind", "listen"}

\* the operator leaving through tmux, entering the monitor, mistyping a route
ExitConsoleLines ==
    {EXIT, MONITOR, Join(<<ROUTE, Dec(1)>>), RouteLine(Dec(1), Dec(7), Dec(2), Dec(0))}

NextExits ==
    \/ \E call \in SocketCalls : server_socket_failed(call)
    \/ \E file \in MonitorFiles : process_routing_file(file)
    \/ select_failed
    \/ accept_failed
    \/ next_client_id <= MAX_CLIENTS /\ handle_new_connection
    \/ \E i \in Slots, buf \in MalformedReads \cup {<<>>} : client_ready(i, buf)
    \/ \E cmdline \in ExitConsoleLines : handle_console_input(cmdline)
    \/ \E select_ok \in BOOLEAN, key \in PassKeys, dt \in Dts :
          monitor_iteration(select_ok, <<>>, key, TRUE, dt)

SpecExits == Init /\ [][NextExits]_vars

\* C31: the process ends on an error only when socket(), bind() or listen() of
\* the server socket failed, and then with a nonzero status; a failed accept,
\* client read, readiness wait or file open and malformed input leave it
\* running (the operator's exit command is no error)
C31_OnlySocketSetupIsFatal ==
    (pc = "exited" /\ last.op # "console")
        => /\ last.op = "exit"
           /\ last.call \in SocketCalls
           /\ last.status # 0

(***************************************************************************)
(* Route commands the console rejects.                                     *)
(***************************************************************************)
\* the route commands of SpecRoutes and two with arguments missing
RejectLines ==
    RouteArgLines \cup {Join(<<ROUTE, Dec(1)>>), Join(<<ROUTE, Dec(1), ALL, Dec(2)>>)}

NextRejects ==
    \/ \E file \in MonitorFiles : process_routing_file(file)
    \/ handle_new_connection
    \/ \E i \in Slots : client_ready(i, <<>>)
    \/ \E cmdline \in RejectLines : handle_console_input(cmdline)

SpecRejects == Init /\ [][NextRejects]_vars

\* the acknowledgements among the lines a command printed
Acknowledged(lines) == SelectSeq(lines, LAMBDA l : l[1] = "Routed")

\* whether the route command names "all" on either side
IsBulk(cmdline) ==
    LET tok == strtok(cmdline) IN Len(tok) >= 5 /\ (tok[3] = ALL \/ tok[5] = ALL)

\* C32: a console route command either is rejected, and then nothing but its
\* diagnostic happens (the table, the clients and the server's position are
\* what they were, so later commands meet the state they would have met
\* without it), or it is applied whole: every line it prints is an
\* acknowledgement, a bulk command prints CHANNELS_PER_APP of them and any
\* other command one, and every acknowledged (source, channel) inside the
\* table holds an acknowledged destination.
C32_RejectedRouteChangesNothing ==
    [][(last'.op = "console" /\ HasPrefix(last'.data, ROUTE))
          => LET acks == Acknowledged(out') IN
             \/ /\ acks = <<>>
                /\ out' # <<>>
                /\ UNCHANGED <<routing, routed, clients, client_data, next_client_id,
                               pc, pending, mon>>
             \/ /\ acks = out'
                /\ Len(acks) = IF IsBulk(last'.data) THEN CHANNELS_PER_APP ELSE 1
                /\ \A k \in 1..Len(acks) :
                      acks[k][2] \in RouteRows =>
                          \E n \in 1..Len(acks) :
                              /\ acks[n][2] = acks[k][2]
                              /\ acks[n][3] = acks[k][3]
                              /\ routing'[acks[k][2]][acks[k][3]] =
                                     [in_client_id |-> acks[n][4], in_channel |-> acks[n][5]]
                /\ \A r \in RouteRows, c \in Channels :
                      (\A k \in 1..Len(acks) : <<acks[k][2], acks[k][3]>> # <<r, c>>)
                          => routing'[r][c] = routing[r][c]]_vars

\* a bulk command refused for its source client after a route was stored, and
\* the route still in the table
C32_Reached ==
    /\ last.op = "console"
    /\ last.data = RouteLine(Dec(2), ALL, Dec(1), Dec(1))
    /\ ~Connected(2)
    /\ Connected(1)
    /\ out = [k \in 1..CHANNELS_PER_APP |-> <<"No such client", 2>>]
    /\ routing[1][0] = [in_client_id |-> 2, in_channel |-> 1]
    /\ routing[2] = [c \in Channels |-> NoRoute]

(***************************************************************************)
(* Reads that hold several frames.                                         *)
(***************************************************************************)
\* the frames of a read, in arrival order, as <<channel, payload>>
BurstFrames ==
    { <<<<0, <<"a">>>>, <<0, <<"b">>>>>>,
      <<<<0, <<"a">>>>, <<1, <<"b">>>>>>,
      <<<<1, <<"a">>>>, <<0, <<"b">>>>, <<0, <<"c">>>>>> }

\* the bytes of such a read: every frame with its newline
RECURSIVE Burst(_)
Burst(f) ==
    IF f = <<>> THEN <<>>
    ELSE OutFrame(f[1][1], f[1][2]) \o <<"\n">> \o Burst(Tail(f))

BurstReads == {Burst(f) : f \in BurstFrames} \cup {<<>>}

BurstConsoleLines ==
    { RouteLine(Dec(1), ALL, Dec(2), Dec(1)),
      RouteLine(Dec(1), Dec(0), Dec(2), Dec(0)),
      RouteLine(Dec(2), Dec(0), Dec(1), Dec(0)) }

\* (as many clients connect as the routing table has rows for)
NextBursts ==
    \/ \E file \in MonitorFiles : process_routing_file(file)
    \/ next_client_id <= MAX_CLIENTS /\ handle_new_connection
    \/ \E i \in Slots, buf \in BurstReads : client_ready(i, buf)
    \/ \E cmdline \in BurstConsoleLines : handle_console_input(cmdline)

SpecBursts == Init /\ [][NextBursts]_vars

\* the bytes of each of these reads
BurstOf == [f \in BurstFrames |-> Burst(f)]

\* what the frames f, read from client A, make the server send when every
\* frame is looked up in the table rt and forwarded if its destination is in
\* the registry cl: one message per such frame, in the order of the frames
RECURSIVE ForwardedInOrder(_, _, _, _)
ForwardedInOrder(f, A, rt, cl) ==
    IF f = <<>> THEN <<>>
    ELSE LET r == rt[A][f[1][1]]
             idx_in == find_client_index(cl, r.in_client_id)
         IN (IF r.in_client_id >= 0 /\ idx_in >= 0
             THEN <<[fd |-> cl[idx_in].sockfd, data |-> InMessage(r.in_channel, A, f[1][2])]>>
             ELSE <<>>)
            \o ForwardedInOrder(Tail(f), A, rt, cl)

\* the frames of f that the message data can be the forward of, by position
FramesFor(f, A, data) ==
    {n \in 1..Len(f) : \E d \in 0..CHANNELS_PER_APP : data = InMessage(d, A, f[n][2])}

\* the payload of the last frame of f on channel c, old if there is none
LastPayload(f, c, old) ==
    LET on == {n \in 1..Len(f) : f[n][1] = c}
    IN IF on = {} THEN old ELSE f[CHOOSE n \in on : \A o \in on : o <= n][2]

\* C33: a read that holds several complete frames dispatches each of them once
\* and in arrival order.  Every message the handler sends is the forward of
\* one frame of the read, and the messages follow each other as their frames
\* do; the table and the registry are the same for every frame of the read,
\* so for a sender whose row is in the table the messages are exactly the
\* forwards of the routed frames in frame order; the sender's output cache
\* holds the last payload of each channel.
C33_FramesDispatchedInOrder ==
    [][\A f \in BurstFrames :
          (last'.op = "read" /\ last'.data = BurstOf[f])
             => LET i == last'.slot
                    A == clients[i].client_id
                IN /\ \A k \in 1..Len(sent') : FramesFor(f, A, sent'[k].data) # {}
                   /\ \A k, l \in 1..Len(sent') :
                         k < l => \A n \in FramesFor(f, A, sent'[k].data),
                                     o \in FramesFor(f, A, sent'[l].data) : n < o
                   /\ A \in RouteRows => sent' = ForwardedInOrder(f, A, routing, clients)
                   /\ UNCHANGED <<routing, clients>>
                   /\ \A c \in Channels :
                         client_data'[i].last_out[c] =
                             LastPayload(f, c, client_data[i].last_out[c])]_vars

\* three frames of one read forwarded to the same input channel, in their order
C33_Reached ==
    /\ last.op = "read"
    /\ last.data = BurstOf[<<<<1, <<"a">>>>, <<0, <<"b">>>>, <<0, <<"c">>>>>>]
    /\ clients[last.slot].client_id = 1
    /\ Connected(2)
    /\ sent = [k \in 1..3 |-> [fd |-> clients[SlotOf(2)].sockfd,
                               data |-> InMessage(1, 1, <<<<"a">>, <<"b">>, <<"c">>>>[k])]]
    /\ client_data[SlotOf(2)].last_in[1] = InMessage(1, 1, <<"c">>)

\* C34: a newly accepted client starts with empty channel caches.  Right after
\* handle_new_connection has accepted a client into a slot, every cached
\* output text and every cached input text of that slot is empty, also when
\* the slot was used before by a client that has disconnected.
C34_AcceptedClientHasEmptyCaches ==
    last.op = "accept" => client_data[last.slot] = EmptyData

\* C35: every access to the routing table uses a row inside 0..MAX_CLIENTS.
\* The dispatcher, having read a frame "out c: X" from a client, has looked up
\* the row of that client's identifier; the console and the startup loader
\* have stored into the row of the source identifier of every route they
\* acknowledge; each of these rows is a row of the table.
C35_RoutingIndexInBounds ==
    /\ \A i \in Slots, c \in Channels, X \in Payloads :
          ReadFrame(i, c, X) => clients[i].client_id \in RouteRows
    /\ last.op \in {"console", "loader"} =>
          \A k \in 1..Len(out) :
              out[k][1] \in {"Routed", "Preconfigured"} => out[k][2] \in RouteRows

(***************************************************************************)
(* Output of channels that have no live route.                             *)
(***************************************************************************)
\* a preconfigured route of client 1's channel 0 to a client that may never
\* connect; channel 1 of every client stays without a route
UnroutedFiles ==
    { [exists |-> FALSE, lines |-> <<>>],
      [exists |-> TRUE, lines |-> <<RouteLine(Dec(1), Dec(0), Dec(2), Dec(1))>>] }

UnroutedPayloads == {<<"x">>, <<"y">>}

UnroutedReads ==
    {OutFrame(c, X) \o <<"\n">> : c \in Channels, X \in UnroutedPayloads} \cup {<<>>}

UnroutedConsoleLines == {PrintLine(1), PrintLine(2), MONITOR}

\* (as many clients connect as the routing table has rows for)
NextUnrouted ==
    \/ \E file \in UnroutedFiles : process_routing_file(file)
    \/ next_client_id <= MAX_CLIENTS /\ handle_new_connection
    \/ \E i \in Slots, buf \in UnroutedReads : client_ready(i, buf)
    \/ \E cmdline \in UnroutedConsoleLines : handle_console_input(cmdline)
    \/ \E ready \in {<<>>} \cup {(0 :> buf) : buf \in UnroutedReads}, key \in PassKeys,
          dt \in Dts :
          monitor_iteration(TRUE, ready, key, TRUE, dt)

SpecUnrouted == Init /\ [][NextUnrouted]_vars

\* the bytes of the frame "out c: X" with its newline
UnroutedFrame == [c \in Channels |-> [X \in UnroutedPayloads |-> OutFrame(c, X) \o <<"\n">>]]

\* C36: the output cache follows every accepted frame.  When "out c: X" is read
\* from a client, in the main loop or in a pass of the monitor loop, the
\* client's cached output for c is X afterwards, with or without a route for
\* the channel and with or without a live destination; print shows, for each
\* channel of the client it names, the first 50 characters of that cache and
\* the monitor view the first 10, routed or not.
C36_OutputCachedWithoutRoute ==
    [][/\ \A i \in Slots, c \in Channels, X \in UnroutedPayloads :
             (\/ (last'.op = "read" /\ last'.slot = i /\ last'.data = UnroutedFrame[c][X])
              \/ (last'.op = "tick" /\ i \in DOMAIN last'.ready
                                    /\ last'.ready[i] = UnroutedFrame[c][X]))
                => client_data'[i].last_out[c] = X
       /\ \A id \in 1..MAX_CLIENTS :
             (last'.op = "console" /\ last'.data = PrintLine(id) /\ Connected(id))
                => \A c \in Channels :
                      out'[c + 2][2] = Field(client_data[SlotOf(id)].last_out[c], 50)
       /\ (last'.op = "tick")
             => \A i \in Slots :
                   clients'[i].active =>
                      \E k \in 1..Len(out') :
                         out'[k] = <<"client", clients'[i].client_id,
                                     [n \in 1..CHANNELS_PER_APP |->
                                        Field(client_data'[i].last_out[n - 1], 10)]>>]_vars

\* print shows what client 1 sent on its channel 0, routed to a client that is
\* not connected, and on its channel 1, which has no route
C36_Reached ==
    /\ last.op = "console"
    /\ last.data = PrintLine(1)
    /\ Connected(1)
    /\ ~Connected(2)
    /\ routing[1][0] = [in_client_id |-> 2, in_channel |-> 1]
    /\ routing[1][1] = NoRoute
    /\ out[2][2] = Field(<<"x">>, 50)
    /\ out[3][2] = Field(<<"y">>, 50)

\* C37: monitor mode accepts no connection.  A step taken while monitor_mode
\* runs leaves the identifier counter and the list of identifiers handed out
\* as they are, and every slot either as it is or released; a connection is
\* accepted (or refused for lack of a slot) only by a step of the main loop,
\* when monitor_mode is not running.
C37_NoAcceptInMonitorMode ==
    [][/\ pc = "monitor" =>
             /\ next_client_id' = next_client_id
             /\ assigned' = assigned
             /\ ActiveSlots' \subseteq ActiveSlots
             /\ \A i \in Slots : \/ clients'[i] = clients[i]
                                 \/ clients'[i] = [clients[i] EXCEPT !.active = FALSE]
       /\ last'.op \in {"accept", "full"} => (pc = "main" /\ mon = NoMonitor)]_vars

\* a pass of the monitor loop that released the client of slot 0 and left the
\* other client and the counter alone
C37_Reached ==
    /\ pc = "monitor"
    /\ last.op = "tick"
    /\ last.ready = (0 :> <<>>)
    /\ ~clients[0].active
    /\ clients[1].active
    /\ next_client_id = 3
    /\ assigned = <<1, 2>>

\* C38: a fixed source channel with "all" as destination.  "route A c B all",
\* given to the console while A and B are connected or read from the startup
\* file, is acknowledged once per input channel in ascending order, leaves
\* the entry of (A, c) at (B, CHANNELS_PER_APP - 1), the last of the stores,
\* and changes no other entry: no other source channel of A is routed by it.
C38_FixedSourceAllDestinations ==
    [][\A A \in Ids, B \in Ids, c \in Channels :
          LET line == RouteLine(Dec(A), Dec(c), Dec(B), ALL)
              stored == IF A \in RouteRows
                        THEN [routing EXCEPT ![A][c] =
                                 [in_client_id |-> B, in_channel |-> CHANNELS_PER_APP - 1]]
                        ELSE routing
          IN /\ (last'.op = "console" /\ last'.data = line /\ Connected(A) /\ Connected(B))
                   => /\ routing' = stored
                      /\ out' = [k \in 1..CHANNELS_PER_APP |-> <<"Routed", A, c, B, k - 1>>]
             /\ (last'.op = "loader" /\ last'.data = <<line>>)
                   => /\ routing' = stored
                      /\ SubSeq(out', 1, CHANNELS_PER_APP) =
                            [k \in 1..CHANNELS_PER_APP |-> <<"Preconfigured", A, c, B, k - 1>>]]_vars

\* the command given for channel 1 of client 1, whose channel 0 keeps the
\* route it had
C38_Reached ==
    /\ last.op = "console"
    /\ last.data = RouteLine(Dec(1), Dec(1), Dec(2), ALL)
    /\ Connected(1)
    /\ Connected(2)
    /\ routing[1][1] = [in_client_id |-> 2, in_channel |-> CHANNELS_PER_APP - 1]
    /\ routing[1][0] = [in_client_id |-> 2, in_channel |-> 1]
    /\ routing[2] = [c \in Channels |-> NoRoute]
    /\ out = [k \in 1..CHANNELS_PER_APP |-> <<"Routed", 1, 1, 2, k - 1>>]

\* the log files whose content the step changes or creates
Written == {f \in DOMAIN logs' : f \notin DOMAIN logs \/ logs'[f] # logs[f]}

\* C39: recording and the log handle go together.  In every state inside
\* monitor mode the recording flag is set exactly when log_file is a stream,
\* and then it is the one open log; a step writes to a log file only if that
\* file is the open log of a recording monitor when the step ends, or was it
\* when the step began and the step is the pass that quits; the pass that
\* reads the toggle key while recording writes nothing, and no step writes
\* while the recorder is and stays idle.
C39_RecordingIffLogOpen ==
    /\ [](pc = "monitor" =>
             /\ mon.recording <=> mon.log_file # NoFile
             /\ open_logs = IF mon.recording THEN <<mon.log_file>> ELSE <<>>)
    /\ [][/\ \A f \in Written :
                \/ (pc' = "monitor" /\ mon'.recording /\ mon'.log_file = f
                                    /\ open_logs' = <<f>>)
                \/ (pc = "monitor" /\ pc' = "main" /\ mon.recording /\ mon.log_file = f
                                   /\ open_logs = <<f>> /\ last'.key \in {"Q", "q"})
          /\ (pc = "monitor" /\ mon.recording /\ last'.op = "tick" /\ last'.key \in {"R", "r"})
                => (Written = {} /\ ~mon'.recording /\ open_logs' = <<>>)
          /\ (~mon.recording /\ ~mon'.recording) => Written = {}]_vars

\* after toggle-off: the log closed with its header and the one row of the
\* pass that started it
C39_Reached ==
    /\ pc = "monitor"
    /\ last.op = "tick"
    /\ last.key = "R"
    /\ ~mon.recording
    /\ mon.log_file = NoFile
    /\ open_logs = <<>>
    /\ mon.log_filename \in DOMAIN logs
    /\ Len(logs[mon.log_filename]) = 2

\* the step leaves every log file but f as it was and creates none but f
OnlyLogChanged(f) ==
    /\ DOMAIN logs' = DOMAIN logs \cup {f}
    /\ \A g \in DOMAIN logs \ {f} : logs'[g] = logs[g]

\* C40: one row per pass while recording.  A pass of the monitor loop whose
\* select() returned, woken by the timeout, by client data or by a key:
\* while recording and reading no toggle key it appends exactly one data row
\* to the open log and changes nothing else in any log, and when the key is
\* the quit key the row is appended all the same and the log is closed after
\* it; reading the toggle key while idle, with the log opened, it leaves the
\* new log with its header and one data row; reading the toggle key while
\* recording it appends nothing; while idle with no toggle key it writes nothing.
C40_OneRowPerPass ==
    [][(pc = "monitor" /\ last'.op = "tick" /\ last'.select_ok) =>
          LET key == last'.key
              toggle == key \in {"R", "r"}
          IN /\ (mon.recording /\ ~toggle) =>
                   LET f == mon.log_file IN
                   /\ OnlyLogChanged(f)
                   /\ Len(logs'[f]) = Len(logs[f]) + 1
                   /\ SubSeq(logs'[f], 1, Len(logs[f])) = logs[f]
                   /\ IsDataRow(logs'[f][Len(logs'[f])])
                   /\ key \in {"Q", "q"} => (pc' = "main" /\ open_logs' = <<>>)
                   /\ key \notin {"Q", "q"} => (mon'.recording /\ open_logs' = <<f>>)
             /\ (~mon.recording /\ toggle /\ last'.fopen_ok) =>
                   LET f == mon'.log_file IN
                   /\ mon'.recording
                   /\ OnlyLogChanged(f)
                   /\ Len(logs'[f]) = 2
                   /\ IsHeaderRow(logs'[f][1])
                   /\ IsDataRow(logs'[f][2])
             /\ (mon.recording /\ toggle) => logs' = logs
             /\ (~mon.recording /\ ~toggle) => logs' = logs]_vars

\* the quit key read while recording: the log holds the header, the row of the
\* pass that started the session and the row of the pass that quit, and is closed
C40_Reached ==
    /\ pc = "main"
    /\ last.op = "tick"
    /\ last.key = "Q"
    /\ last.select_ok
    /\ open_logs = <<>>
    /\ \E f \in DOMAIN logs : /\ Len(logs[f]) = 3
                              /\ IsHeaderRow(logs[f][1])
                              /\ IsDataRow(logs[f][2])
                              /\ IsDataRow(logs[f][3])
====
